---- MODULE Spec2Model ----
(***************************************************************************)
(* Verification model of the xnova scripts: account probes, mint-creation  *)
(* procedures, the fallback-endpoint loop, the report writers and the      *)
(* CustomTokenDeployer test run.  Every procedure is a sequential process  *)
(* whose steps are its RPC calls; the node's answers (a value, or an       *)
(* exception) are the nondeterministic inputs.                             *)
(***************************************************************************)
EXTENDS Integers, Sequences, FiniteSets, TLC

\* ------------------------------------------------------------------------
\* Bounds of the model
\* ------------------------------------------------------------------------
\* longest address string handed to an address parser
MaxAddrLen == 2

\* longest list in a result dict handed to a report writer
MaxItems == 2

\* longest answer typed at the confirmation prompt of run_mainnet_tests
MaxAnswerLen == 2

\* most ManipulationResults a TokenController is asked for
MaxManipulations == 3

\* ------------------------------------------------------------------------
\* Python values shared by the procedures
\* ------------------------------------------------------------------------
\* the result a procedure has before it returned
NoResult == [kind |-> "pending"]

\* Python's None
NoneValue == [kind |-> "None"]

\* the outcome "the call raised an exception"
Raise == [kind |-> "raise"]

Last(s) == s[Len(s)]

\* os.getenv gives None for a variable that is not set
EnvNone == "None"

\* an address text held by an optional variable (None when absent)
Text(t) == [kind |-> "str", text |-> t]

\* ------------------------------------------------------------------------
\* Pubkey.from_string / str(Pubkey): base58 over a key scaled from 32 bytes
\* to one byte (key values 0..255).  A text is a sequence of characters.
\* ------------------------------------------------------------------------
Base58Alphabet ==
  << "1","2","3","4","5","6","7","8","9",
     "A","B","C","D","E","F","G","H","J","K","L","M","N","P","Q","R","S","T",
     "U","V","W","X","Y","Z",
     "a","b","c","d","e","f","g","h","i","j","k","m","n","o","p","q","r","s",
     "t","u","v","w","x","y","z" >>

PubkeyValues == 0..255

Base58Digit(c) == (CHOOSE i \in 1..Len(Base58Alphabet) : Base58Alphabet[i] = c) - 1

IsBase58Char(c) == \E i \in 1..Len(Base58Alphabet) : Base58Alphabet[i] = c

\* the number a text of base58 digits denotes (most significant digit first)
RECURSIVE Base58Number(_)
Base58Number(s) ==
  IF s = <<>> THEN 0
  ELSE Base58Number(SubSeq(s, 1, Len(s) - 1)) * 58 + Base58Digit(Last(s))

\* leading "1" characters: each stands for one leading zero byte
RECURSIVE LeadingOnes(_)
LeadingOnes(s) ==
  IF s = <<>> \/ s[1] # "1" THEN 0 ELSE 1 + LeadingOnes(Tail(s))

\* bytes needed for a number without leading zero bytes
RECURSIVE ByteLen(_)
ByteLen(n) == IF n = 0 THEN 0 ELSE 1 + ByteLen(n \div 256)

\* Pubkey.from_string: the key, or the parse error that is raised
PubkeyFromStringBad(s) ==
  IF \E i \in 1..Len(s) : ~IsBase58Char(s[i])
  THEN [ok |-> FALSE, error |-> "Invalid Base58 string"]
  ELSE [ok |-> TRUE, key |-> Base58Number(s) % 256]

PubkeyFromString(s) ==
  IF \E i \in 1..Len(s) : ~IsBase58Char(s[i])
  THEN [ok |-> FALSE, error |-> "Invalid Base58 string"]
  ELSE IF LeadingOnes(s) + ByteLen(Base58Number(s)) # 1
       THEN [ok |-> FALSE, error |-> "String is the wrong size"]
       ELSE [ok |-> TRUE, key |-> Base58Number(s)]

\* str(Pubkey): the base58 text of a key
RECURSIVE Base58Digits(_)
Base58Digits(n) ==
  IF n = 0 THEN <<>>
  ELSE Append(Base58Digits(n \div 58), Base58Alphabet[(n % 58) + 1])

PubkeyToString(k) == IF k = 0 THEN <<"1">> ELSE Base58Digits(k)

\* the characters address strings are drawn from: base58 digits and the
\* four look-alike characters base58 leaves out
AddrChars == {"1", "2", "5", "z", "0", "O", "I", "l"}

RECURSIVE TextsUpTo(_, _)
TextsUpTo(chars, n) ==
  IF n = 0 THEN {<<>>}
  ELSE LET shorter == TextsUpTo(chars, n - 1)
       IN  shorter \cup {Append(t, c) : t \in shorter, c \in chars}

AddressStrings == TextsUpTo(AddrChars, MaxAddrLen)

\* a text is a valid address when it is the base58 text of some key
IsValidAddress(s) == \E k \in PubkeyValues : PubkeyToString(k) = s

\* ------------------------------------------------------------------------
\* State
\* ------------------------------------------------------------------------
VARIABLES
  \* check_accounts_exist.check_account_existence and
  \* CreatedAccountTester.test_account_exploit (one call at a time)
  ca_fn,          \* the function being executed, "idle" between calls
  ca_pc,          \* its position
  address_str,    \* the address text it was called with
  pubkey,         \* what Pubkey.from_string gave
  ca_client,      \* the AsyncClient of the async with block
  ca_calls,       \* RPC calls and exploit methods invoked, in order
  response,       \* what get_account_info gave
  ca_result       \* the returned dict, or the exception that left the call

  ,
  \* create_token_final_v2: the endpoint configuration read at import and a
  \* call of try_with_fallback_endpoints(_sync)
  SOLANA_RPC_URL,       \* the primary endpoint
  FALLBACK_ENDPOINTS,   \* the fallback list after the None filter
  fb_env,               \* SOLANA_RPC_FALLBACK_1..3 as os.getenv gave them
  fb_fn,                \* the variant being executed, "idle" between calls
  fb_pc,                \* "primary", "fallback" (the for loop) or "done"
  fb_i,                 \* fallback entries the for loop has gone through
  fb_invoked,           \* invocations of operation_func, in order
  fb_result             \* what the call returned
  ,
  \* the mint-creation and balance procedures (one call at a time)
  payer_key,              \* public key of the payer keypair (SOLANA_PRIVKEY)
  SOLANA_TARGET_ADDRESS,  \* the environment variable, None when not set
  m_fn,                   \* the procedure being executed, "idle" between calls
  m_pc,                   \* its position
  m_args,                 \* its arguments
  m_client,               \* the RPC client the procedure works with
  m_rpc,                  \* RPC calls issued by the call, in order
  m_result,               \* the returned value, or the exception that left
  m_exc,                  \* the exception raised inside the call, or "none"
  mint_keypair,           \* public key of the keypair made by Keypair()
  m_tx,                   \* instructions added to the transactions
  token_pubkey            \* pubkey of the AsyncToken object (token.pubkey)

  ,
  \* a CustomTokenDeployer, the method being executed on it and a run of
  \* run_comprehensive_token_tests
  config,          \* the TokenConfig of the run
  token_address,   \* self.token_address: None, or the key of the mint
  token_account,   \* self.token_account: None, or the key of the account
  test_results,    \* self.test_results
  run_pc,          \* the step of the run: "idle" before it, "done" after
  balance,         \* what check_balance returned, in lamports
  run_result,      \* the dict the run returned
  t_fn,            \* the method being executed, "none" between calls
  t_pc,            \* "entry", the RPC call it is about to await, "return"
  t_amount,        \* its amount argument
  t_log,           \* RPC calls (and attribute assignments) of the top-level
                   \* call, in order
  t_ret            \* what the method returned

  ,
  \* a report writer and a reader of the report
  r_fn,            \* the writer that wrote the report
  r_pc,            \* "idle", "written", "loaded"
  r_input,         \* the results it was given
  r_text,          \* the text it wrote
  r_loaded,        \* what json.load gave for the text
  \* utils/config.py: a ConfigManager and its configuration file
  config_file,     \* the file at config_path: "missing", "invalid" or the
                   \* text of its setting
  environ,         \* the value of the environment variable VAR, or EnvNone
  _config,         \* self._config: NoneValue or the cached Config
  cm_reads,        \* how many times the file was opened for reading
  cm_op,           \* the last operation of the manager, "none" at first
  cm_ret,          \* what that operation returned
  \* analytics/price_monitor.py: a PriceMonitor
  monitored_tokens, \* self.monitored_tokens
  price_history,   \* self.price_history: token -> list of PriceData
  current_prices,  \* self.current_prices: token -> PriceData
  pm_tasks,        \* the update_token_price coroutines in flight: the tasks
                   \* of one gather, or one direct call
  pm_seq,          \* how many prices the sources have delivered
  pm_obtained,     \* per token, the prices obtained since its history began
  pm_limit,        \* how many prices the sources deliver at most
  pm_scope,        \* the token addresses the callers use
  pm_ret,          \* the call of add_token_to_monitor or
                   \* remove_token_from_monitor that has just returned
  \* utils/safety_checks.py: a SafetyChecker
  target_pubkey,   \* self.target_pubkey
  sc_ret,          \* the last call of a method: name, arguments, value
  \* run_mainnet_tests.py: one run of main
  mn_env,          \* os.getenv of the three required variables
  mn_pc,           \* where main is
  mn_input,        \* what input() gave at the confirmation prompt
  mn_suites,       \* the suites run so far, each with what it returned
  success_count,   \* main's success_count
  \* token_management/token_controller.py: a TokenController
  controlled_tokens,    \* self.controlled_tokens: mint address -> TokenInfo
  liquidity_pools,      \* self.liquidity_pools: the pool addresses
  manipulation_history, \* self.manipulation_history
  ctl_calls,       \* how many manipulate_liquidity_display calls returned
  ctl_ret          \* the last call of a method: name, arguments, value

probeVars == <<ca_fn, ca_pc, address_str, pubkey, ca_client, ca_calls,
               response, ca_result>>

fallbackVars == <<SOLANA_RPC_URL, FALLBACK_ENDPOINTS, fb_env, fb_fn, fb_pc,
                  fb_i, fb_invoked, fb_result>>

mintVars == <<payer_key, SOLANA_TARGET_ADDRESS, m_fn, m_pc, m_args, m_client,
              m_rpc, m_result, m_exc, mint_keypair, m_tx, token_pubkey>>

tokenVars == <<config, token_address, token_account, test_results, run_pc,
               balance, run_result, t_fn, t_pc, t_amount, t_log, t_ret>>

reportVars == <<r_fn, r_pc, r_input, r_text, r_loaded>>

cfgVars == <<config_file, environ, _config, cm_reads, cm_op, cm_ret>>

pmVars == <<monitored_tokens, price_history, current_prices, pm_tasks, pm_seq,
            pm_obtained, pm_limit, pm_scope, pm_ret>>

mnVars == <<mn_env, mn_pc, mn_input, mn_suites, success_count>>

ctlVars == <<controlled_tokens, liquidity_pools, manipulation_history,
             ctl_calls, ctl_ret>>

nonProbeVars == <<fallbackVars, mintVars, tokenVars, reportVars, cfgVars,
  pmVars, target_pubkey, sc_ret, mnVars, ctlVars>>

nonFallbackVars == <<probeVars, mintVars, tokenVars, reportVars, cfgVars,
  pmVars, target_pubkey, sc_ret, mnVars, ctlVars>>

nonMintVars == <<probeVars, fallbackVars, tokenVars, reportVars, cfgVars,
  pmVars, target_pubkey, sc_ret, mnVars, ctlVars>>

nonTokenVars == <<probeVars, fallbackVars, mintVars, reportVars, cfgVars,
  pmVars, target_pubkey, sc_ret, mnVars, ctlVars>>

nonReportVars == <<probeVars, fallbackVars, mintVars, tokenVars, cfgVars,
  pmVars, target_pubkey, sc_ret, mnVars, ctlVars>>

nonUtilVars == <<probeVars, fallbackVars, mintVars, tokenVars, reportVars,
  mnVars, ctlVars>>

nonMainnetVars == <<probeVars, fallbackVars, mintVars, reportVars, cfgVars,
  pmVars, target_pubkey, sc_ret, ctlVars>>

nonControllerVars == <<probeVars, fallbackVars, mintVars, tokenVars,
  reportVars, cfgVars, pmVars, target_pubkey, sc_ret, mnVars>>

vars == <<nonUtilVars, cfgVars, pmVars, target_pubkey, sc_ret>>

\* ------------------------------------------------------------------------
\* check_accounts_exist.py / test_created_accounts.py
\* ------------------------------------------------------------------------
\* account values a node can return for get_account_info
AccountInfos ==
  [kind : {"account"}, lamports : {0, 5}, owner : {0, 7},
   data_size : {0, 82}, executable : BOOLEAN]

\* outcomes of client.get_account_info: an exception, or a response whose
\* value is None or an account
GetAccountInfoOutcomes ==
  {Raise} \cup [kind : {"response"}, value : {NoneValue} \cup AccountInfos]

InitProbe ==
  /\ ca_fn = "idle"
  /\ ca_pc = "idle"
  /\ address_str = <<>>
  /\ pubkey = NoResult
  /\ ca_client = "none"
  /\ ca_calls = <<>>
  /\ response = NoResult
  /\ ca_result = NoResult

\* except Exception as e: return {"address", "exists": False, "error": str(e)}
CAE_ExceptBad(addr, e) == [kind |-> "raise", error |-> e]

CAE_Except(addr, e) == [address |-> addr, exists |-> FALSE, error |-> e]

\* a call of check_account_existence(address_str)
CAE_Call ==
  /\ UNCHANGED nonProbeVars
  /\ ca_fn = "idle"
  /\ \E s \in AddressStrings : address_str' = s
  /\ ca_fn' = "check_account_existence"
  /\ ca_pc' = "parse"
  /\ pubkey' = NoResult
  /\ ca_client' = "none"
  /\ ca_calls' = <<>>
  /\ response' = NoResult
  /\ ca_result' = NoResult

\* pubkey = Pubkey.from_string(address_str); a parse error goes to the
\* except clause of the function
CAE_Parse ==
  /\ UNCHANGED nonProbeVars
  /\ ca_fn = "check_account_existence"
  /\ ca_pc = "parse"
  /\ pubkey' = PubkeyFromString(address_str)
  /\ IF pubkey'.ok
     THEN /\ ca_pc' = "connect"
          /\ UNCHANGED ca_result
     ELSE /\ ca_pc' = "done"
          /\ ca_result' = CAE_Except(address_str, pubkey'.error)
  /\ UNCHANGED <<ca_fn, address_str, ca_client, ca_calls, response>>

\* async with AsyncClient(RPC_URL) as client
CAE_Connect ==
  /\ UNCHANGED nonProbeVars
  /\ ca_fn = "check_account_existence"
  /\ ca_pc = "connect"
  /\ ca_client' = "open"
  /\ ca_pc' = "get_account_info"
  /\ UNCHANGED <<ca_fn, address_str, pubkey, ca_calls, response, ca_result>>

\* the dict check_account_existence returns for an outcome of the RPC
CAE_ResultBad(addr, out) ==
  IF out.kind = "raise"
  THEN CAE_Except(addr, "rpc error")
  ELSE IF out.value = NoneValue
       THEN [address |-> addr, exists |-> TRUE, lamports |-> 0,
             owner |-> NoneValue, data_size |-> 0, executable |-> FALSE]
       ELSE [address |-> addr, exists |-> TRUE,
             lamports |-> out.value.lamports, owner |-> out.value.owner,
             data_size |-> out.value.data_size,
             executable |-> out.value.executable]

CAE_Result(addr, out) ==
  IF out.kind = "raise"
  THEN CAE_Except(addr, "rpc error")
  ELSE IF out.value = NoneValue
       THEN [address |-> addr, exists |-> FALSE, error |-> "Account not found"]
       ELSE [address |-> addr, exists |-> TRUE,
             lamports |-> out.value.lamports, owner |-> out.value.owner,
             data_size |-> out.value.data_size,
             executable |-> out.value.executable]

\* response = await client.get_account_info(pubkey), the return of either
\* branch or of the except clause, and the exit of the async with block
CAE_GetAccountInfo ==
  /\ UNCHANGED nonProbeVars
  /\ ca_fn = "check_account_existence"
  /\ ca_pc = "get_account_info"
  /\ \E out \in GetAccountInfoOutcomes :
       /\ response' = out
       /\ ca_result' = CAE_Result(address_str, out)
  /\ ca_calls' = Append(ca_calls, "get_account_info")
  /\ ca_client' = "closed"
  /\ ca_pc' = "done"
  /\ UNCHANGED <<ca_fn, address_str, pubkey>>

\* the caller takes the result; the next call may start
CA_Return ==
  /\ UNCHANGED nonProbeVars
  /\ ca_fn # "idle"
  /\ ca_pc = "done"
  /\ ca_fn' = "idle"
  /\ ca_pc' = "idle"
  /\ UNCHANGED <<address_str, pubkey, ca_client, ca_calls, response,
                 ca_result>>

\* outcomes of prepare_exploit: an exception, or a value tested for truth
ExploitStepOutcomes == {Raise} \cup [kind : {"value"}, value : BOOLEAN]

\* outcomes of scan_target: an exception, None, a list of findings, or a
\* dict with the boolean "vulnerable" and the reasons
ScanOutcomes ==
  {Raise, NoneValue} \cup [kind : {"list"}, len : {0, 1}]
    \cup [kind : {"dict"}, vulnerable : BOOLEAN]

\* if scan_result: None and the empty list are false, a dict that holds
\* keys is true
Truthy(scan_result) ==
  \/ scan_result.kind = "dict"
  \/ scan_result.kind = "list" /\ scan_result.len > 0

\* scan_result.get("vulnerable", False) of a dict
VulnerableBad(scan_result) == TRUE

Vulnerable(scan_result) == scan_result.vulnerable

\* outcomes of execute_exploit: an exception, None, or a result whose
\* status.value is reported as success
ExecuteOutcomes ==
  {Raise, NoneValue} \cup [kind : {"ExploitResult"}, status_value : BOOLEAN]

\* a call of CreatedAccountTester.test_account_exploit(target_address)
TAE_Call ==
  /\ UNCHANGED nonProbeVars
  /\ ca_fn = "idle"
  /\ \E s \in AddressStrings : address_str' = s
  /\ ca_fn' = "test_account_exploit"
  /\ ca_pc' = "construct"
  /\ pubkey' = NoResult
  /\ ca_client' = "none"
  /\ ca_calls' = <<>>
  /\ response' = NoResult
  /\ ca_result' = NoResult

\* exploit = AccountExploit(self.attacker_keypair, rpc_url=self.rpc_url)
TAE_Construct ==
  /\ UNCHANGED nonProbeVars
  /\ ca_fn = "test_account_exploit"
  /\ ca_pc = "construct"
  /\ ca_pc' = "parse"
  /\ UNCHANGED <<ca_fn, address_str, pubkey, ca_client, ca_calls, response,
                 ca_result>>

\* the return of the inner except clause around Pubkey.from_string
TAE_InvalidAddressBad(addr, e) ==
  [exploit |-> "AccountExploit", target |-> addr, success |-> FALSE,
   error |-> [text |-> e, detail |-> ""]]

TAE_InvalidAddress(addr, e) ==
  [exploit |-> "AccountExploit", target |-> addr, success |-> FALSE,
   error |-> [text |-> "Invalid address format", detail |-> e]]

\* target_pubkey = Pubkey.from_string(target_address)
TAE_Parse ==
  /\ UNCHANGED nonProbeVars
  /\ ca_fn = "test_account_exploit"
  /\ ca_pc = "parse"
  /\ pubkey' = PubkeyFromString(address_str)
  /\ IF pubkey'.ok
     THEN /\ ca_pc' = "scan_target"
          /\ UNCHANGED ca_result
     ELSE /\ ca_pc' = "done"
          /\ ca_result' = TAE_InvalidAddress(address_str, pubkey'.error)
  /\ UNCHANGED <<ca_fn, address_str, ca_client, ca_calls, response>>

\* the return of the outer except clause
TAE_Except(addr) ==
  [exploit |-> "AccountExploit", target |-> addr, success |-> FALSE,
   error |-> [text |-> "exploit error", detail |-> ""]]

\* the return after a scan or a preparation that gave a false value
TAE_NotVulnerable(addr) ==
  [exploit |-> "AccountExploit", target |-> addr, success |-> FALSE,
   result |-> "not vulnerable or unavailable"]

\* scan_result = await exploit.scan_target(target_pubkey)
TAE_ScanTarget ==
  /\ UNCHANGED nonProbeVars
  /\ ca_fn = "test_account_exploit"
  /\ ca_pc = "scan_target"
  /\ \E out \in ScanOutcomes :
       /\ ca_calls' = Append(ca_calls, [exploit |-> "AccountExploit",
                                        call |-> "scan_target", out |-> out])
       /\ IF out.kind = "raise"
          THEN ca_pc' = "done" /\ ca_result' = TAE_Except(address_str)
          ELSE IF Truthy(out)
               THEN ca_pc' = "prepare_exploit" /\ UNCHANGED ca_result
               ELSE /\ ca_pc' = "done"
                    /\ ca_result' = TAE_NotVulnerable(address_str)
  /\ UNCHANGED <<ca_fn, address_str, pubkey, ca_client, response>>

\* prep_result = await exploit.prepare_exploit(target_address)
TAE_PrepareExploit ==
  /\ UNCHANGED nonProbeVars
  /\ ca_fn = "test_account_exploit"
  /\ ca_pc = "prepare_exploit"
  /\ \E out \in ExploitStepOutcomes :
       /\ ca_calls' = Append(ca_calls, [exploit |-> "AccountExploit",
                                        call |-> "prepare_exploit",
                                        out |-> out])
       /\ IF out.kind = "raise"
          THEN ca_pc' = "done" /\ ca_result' = TAE_Except(address_str)
          ELSE IF out.value
               THEN ca_pc' = "execute_exploit" /\ UNCHANGED ca_result
               ELSE /\ ca_pc' = "done"
                    /\ ca_result' = TAE_NotVulnerable(address_str)
  /\ UNCHANGED <<ca_fn, address_str, pubkey, ca_client, response>>

\* exec_result = await exploit.execute_exploit(target_address) and the
\* return of its result
TAE_ExecuteExploit ==
  /\ UNCHANGED nonProbeVars
  /\ ca_fn = "test_account_exploit"
  /\ ca_pc = "execute_exploit"
  /\ \E out \in ExecuteOutcomes :
       /\ ca_calls' = Append(ca_calls, [exploit |-> "AccountExploit",
                                        call |-> "execute_exploit",
                                        out |-> out])
       /\ ca_result' =
            IF out.kind = "raise" THEN TAE_Except(address_str)
            ELSE [exploit |-> "AccountExploit", target |-> address_str,
                  success |-> IF out = NoneValue THEN FALSE
                              ELSE out.status_value,
                  result |-> out]
  /\ ca_pc' = "done"
  /\ UNCHANGED <<ca_fn, address_str, pubkey, ca_client, response>>

\* ---- test_vulnerable_tokens.py: test_all_exploits --------------------------
\* the exploit tests in the order test_all_exploits awaits them
ExploitTypes == <<"TokenExploit", "ReentrancyExploit", "AccountExploit">>

\* test_all_exploits(client, token_info, payer): results["exploits"] = []
test_all_exploits ==
  /\ UNCHANGED nonProbeVars
  /\ ca_fn = "idle"
  /\ \E s \in AddressStrings : address_str' = s
  /\ ca_fn' = "test_all_exploits"
  /\ ca_pc' = "scan_target"
  /\ pubkey' = NoResult
  /\ ca_client' = "open"
  /\ ca_calls' = <<>>
  /\ response' = NoResult
  /\ ca_result' = [exploits |-> <<>>]

\* a step of the exploit test that test_all_exploits is awaiting
\* (test_token_exploit, test_reentrancy_exploit, test_account_exploit): the
\* code up to the return of the next awaited method of the exploit object.
\* The result dict starts with success False and error None; the except
\* clause of the test sets error.  A scan result that is no dict raises at
\* scan_result.get.  The returned dict is appended to results["exploits"];
\* behind the third test the counts are added.
test_exploit ==
  /\ UNCHANGED nonProbeVars
  /\ ca_fn = "test_all_exploits"
  /\ ca_pc \in {"scan_target", "prepare_exploit", "execute_exploit"}
  /\ pubkey' = PubkeyFromString(address_str)
  /\ \E out \in IF ~pubkey'.ok THEN {NoResult}
                ELSE IF ca_pc = "scan_target" THEN ScanOutcomes
                ELSE IF ca_pc = "prepare_exploit" THEN ExploitStepOutcomes
                ELSE ExecuteOutcomes :
       LET exploit_type == ExploitTypes[Len(ca_result.exploits) + 1]
           raised == \/ out \in {NoResult, Raise, NoneValue}
                     \/ out.kind = "list"
           goes_on == /\ ~raised
                      /\ \/ ca_pc = "scan_target" /\ Vulnerable(out)
                         \/ ca_pc = "prepare_exploit" /\ out.value
           result == [exploit_type |-> exploit_type,
                      success |-> /\ ~raised
                                  /\ ca_pc = "execute_exploit"
                                  /\ out.status_value,
                      error |-> IF raised THEN Text("str(e)") ELSE NoneValue]
           exploits == Append(ca_result.exploits, result)
           successful == Cardinality({i \in 1..Len(exploits) :
                                        exploits[i].success})
       IN  /\ ca_calls' =
                IF out = NoResult THEN ca_calls
                ELSE Append(ca_calls, [exploit |-> exploit_type,
                                       call |-> ca_pc, out |-> out])
           /\ ca_pc' = IF goes_on
                       THEN IF ca_pc = "scan_target" THEN "prepare_exploit"
                            ELSE "execute_exploit"
                       ELSE IF Len(exploits) < Len(ExploitTypes)
                            THEN "scan_target" ELSE "done"
           /\ ca_result' =
                IF goes_on THEN ca_result
                ELSE IF Len(exploits) < Len(ExploitTypes)
                     THEN [exploits |-> exploits]
                     ELSE [exploits |-> exploits,
                           success_rate |-> <<successful, Len(exploits)>>,
                           successful_exploits |-> successful,
                           total_exploits |-> Len(exploits)]
  /\ UNCHANGED <<ca_fn, address_str, ca_client, response>>

\* ------------------------------------------------------------------------
\* src/create_token_final_v2.py: the fallback-endpoint loop
\* ------------------------------------------------------------------------
DefaultRpcUrl == "https://api.mainnet.solana.com"

\* the three endpoints written into the list
BuiltinEndpoints ==
  << "https://api.mainnet-beta.solana.com",
     "https://solana-api.projectserum.com",
     "https://rpc.ankr.com/solana" >>

\* values the environment can hold for an endpoint variable
EnvUrlValues ==
  {EnvNone, "", "https://rpc.example.org", "https://api.mainnet-beta.solana.com"}

\* [url for url in FALLBACK_ENDPOINTS if url]
RECURSIVE FilterFalsyBad(_)
FilterFalsyBad(urls) ==
  IF urls = <<>> THEN <<>>
  ELSE IF urls[1] = EnvNone
       THEN FilterFalsyBad(Tail(urls))
       ELSE FilterFalsyBad(Tail(urls)) \o <<urls[1]>>

RECURSIVE FilterFalsy(_)
FilterFalsy(urls) ==
  IF urls = <<>> THEN <<>>
  ELSE IF urls[1] \in {EnvNone, ""}
       THEN FilterFalsy(Tail(urls))
       ELSE <<urls[1]>> \o FilterFalsy(Tail(urls))

\* what operation_func can do with a client: raise, or return a value
\* (None included)
OperationOutcomes ==
  {Raise} \cup [kind : {"value"}, value : {"None", "0.05", "token_info"}]

\* the outcome of operation_func when it is main's create_token_operation
\* and create_token failed: create_token's except clause returns None, the
\* exception does not reach try_with_fallback_endpoints
CreateTokenFailed(out) == out = [kind |-> "value", value |-> "None"]

\* the value returned once every endpoint failed
FB_ExhaustedBad == Raise

FB_Exhausted == [kind |-> "value", value |-> "None"]

\* the module after import, for an environment: SOLANA_RPC_URL (with its
\* default) and the three fallback variables
FallbackImported(url, env) ==
  /\ SOLANA_RPC_URL = url
  /\ fb_env = env
  /\ FALLBACK_ENDPOINTS = FilterFalsy(env \o BuiltinEndpoints)
  /\ fb_fn = "idle"
  /\ fb_pc = "idle"
  /\ fb_i = 0
  /\ fb_invoked = <<>>
  /\ fb_result = NoResult

InitFallback ==
  \E url \in (EnvUrlValues \ {EnvNone}) \cup {DefaultRpcUrl} :
    \E env \in [1..3 -> EnvUrlValues] : FallbackImported(url, env)

\* the module imported in an environment that sets no endpoint variable
RestFallback == FallbackImported(DefaultRpcUrl, [i \in 1..3 |-> EnvNone])

\* a call of try_with_fallback_endpoints_sync or try_with_fallback_endpoints
FB_Call ==
  /\ UNCHANGED nonFallbackVars
  /\ fb_fn = "idle"
  /\ fb_fn' \in {"try_with_fallback_endpoints_sync", "try_with_fallback_endpoints"}
  /\ fb_pc' = "primary"
  /\ fb_i' = 0
  /\ fb_invoked' = <<>>
  /\ fb_result' = NoResult
  /\ UNCHANGED <<SOLANA_RPC_URL, FALLBACK_ENDPOINTS, fb_env>>

\* where the loop stands after an invocation that raised at fallback entry i
\* (0 for the primary endpoint)
FB_AfterRaiseBad(i) == "fallback"

FB_AfterRaise(i) == IF i < Len(FALLBACK_ENDPOINTS) THEN "fallback" ELSE "done"

\* try: client = Client(SOLANA_RPC_URL); return operation_func(client)
FB_Primary ==
  /\ UNCHANGED nonFallbackVars
  /\ fb_fn # "idle"
  /\ fb_pc = "primary"
  /\ \E out \in OperationOutcomes :
       /\ fb_invoked' = Append(fb_invoked,
                          [endpoint |-> SOLANA_RPC_URL, outcome |-> out])
       /\ IF out.kind = "raise"
          THEN /\ fb_pc' = FB_AfterRaise(0)
               /\ fb_result' = IF fb_pc' = "done" THEN FB_Exhausted ELSE fb_result
          ELSE /\ fb_pc' = "done"
               /\ fb_result' = out
  /\ UNCHANGED <<SOLANA_RPC_URL, FALLBACK_ENDPOINTS, fb_env, fb_fn, fb_i>>

\* one turn of: for endpoint in FALLBACK_ENDPOINTS: try: client =
\* Client(endpoint); return operation_func(client); the return None after
\* the loop is part of the last turn
FB_Fallback ==
  /\ UNCHANGED nonFallbackVars
  /\ fb_fn # "idle"
  /\ fb_pc = "fallback"
  /\ fb_i < Len(FALLBACK_ENDPOINTS)
  /\ fb_i' = fb_i + 1
  /\ \E out \in OperationOutcomes :
       /\ fb_invoked' = Append(fb_invoked,
                          [endpoint |-> FALLBACK_ENDPOINTS[fb_i'], outcome |-> out])
       /\ IF out.kind = "raise"
          THEN /\ fb_pc' = FB_AfterRaise(fb_i')
               /\ fb_result' = IF fb_pc' = "done" THEN FB_Exhausted ELSE fb_result
          ELSE /\ fb_pc' = "done"
               /\ fb_result' = out
  /\ UNCHANGED <<SOLANA_RPC_URL, FALLBACK_ENDPOINTS, fb_env, fb_fn>>

\* the caller takes the result; the next call may start
FB_Return ==
  /\ UNCHANGED nonFallbackVars
  /\ fb_fn # "idle"
  /\ fb_pc = "done"
  /\ fb_fn' = "idle"
  /\ fb_pc' = "idle"
  /\ UNCHANGED <<SOLANA_RPC_URL, FALLBACK_ENDPOINTS, fb_env, fb_i, fb_invoked,
                 fb_result>>

\* ------------------------------------------------------------------------
\* Mint-creation procedures: create_test_spl_token.py,
\* create_simple_spl_token.py, balance_checker.py,
\* create_vulnerable_test_token.py, src/core/token_creator.py and
\* create_token of src/create_token_final_v2.py
\* ------------------------------------------------------------------------
\* no keypair made yet
NoKey == -1

\* Keypair(): a fresh random keypair, different from every key in use
FreshKeys ==
  {k \in {1, 57, 58, 255} :
     /\ k \notin {payer_key, mint_keypair, token_pubkey}
     /\ SOLANA_TARGET_ADDRESS # Text(PubkeyToString(k))}

\* 0.01 SOL in lamports: balance_resp.value / 1e9 < 0.01
MinBalanceLamports == 10000000

\* 0.1 SOL in lamports: balance.value / 1_000_000_000 < 0.1
VulnerableMinBalanceLamports == 100000000

\* outcomes of client.get_balance: an exception, or a lamport balance
GetBalanceOutcomes ==
  {Raise} \cup [kind : {"value"},
                value : {0, 9999999, 10000000, 99999999, 100000000}]

\* get_associated_token_address(owner, mint), as text
AssociatedTokenAddress(owner, mint) == <<"ata", owner, mint>>

\* the state before the first call, for a payer keypair and a value of
\* SOLANA_TARGET_ADDRESS (not set, a valid address, a malformed one)
MintStarted(payer, target) ==
  /\ payer_key = payer
  /\ SOLANA_TARGET_ADDRESS = target
  /\ m_fn = "idle"
  /\ m_pc = "idle"
  /\ m_args = [none |-> TRUE]
  /\ m_client = "none"
  /\ m_rpc = <<>>
  /\ m_result = NoResult
  /\ m_exc = "none"
  /\ mint_keypair = NoKey
  /\ m_tx = <<>>
  /\ token_pubkey = NoKey

\* the entry of procedure fn with arguments args and client state client
MintCall(fn, at, args, client) ==
  /\ UNCHANGED nonMintVars
  /\ m_fn' = fn
  /\ m_pc' = at
  /\ m_args' = args
  /\ m_client' = client
  /\ m_rpc' = <<>>
  /\ m_result' = NoResult
  /\ m_exc' = "none"
  /\ mint_keypair' = NoKey
  /\ m_tx' = <<>>
  /\ token_pubkey' = NoKey
  /\ UNCHANGED <<payer_key, SOLANA_TARGET_ADDRESS>>

\* the awaited RPC calls of a straight-line stretch of a procedure, each
\* with nothing but the call in its step: the call returns and the procedure
\* goes on to the next one (to `after` behind the last), or it raises and
\* the procedure ends with `failure` (the client is left as it is)
RpcSteps(calls, after, failure) ==
  /\ UNCHANGED nonMintVars
  /\ \E i \in 1..Len(calls) :
       /\ m_pc = calls[i]
       /\ m_rpc' = Append(m_rpc, calls[i])
       /\ \E ok \in BOOLEAN :
            IF ok THEN /\ m_pc' = IF i < Len(calls) THEN calls[i + 1] ELSE after
                       /\ UNCHANGED <<m_result, m_exc>>
                  ELSE /\ m_pc' = "done"
                       /\ m_result' = failure
                       /\ m_exc' = "rpc error"
  /\ UNCHANGED <<payer_key, SOLANA_TARGET_ADDRESS, m_fn, m_args, m_client,
                 mint_keypair, m_tx, token_pubkey>>

\* the caller takes the result; the next call may start
M_Return ==
  /\ UNCHANGED nonMintVars
  /\ m_fn # "idle"
  /\ m_pc = "done"
  /\ m_fn' = "idle"
  /\ m_pc' = "idle"
  /\ UNCHANGED <<payer_key, SOLANA_TARGET_ADDRESS, m_args, m_client, m_rpc,
                 m_result, m_exc, mint_keypair, m_tx, token_pubkey>>

\* ---- TestSPLTokenCreator.create_test_token --------------------------------
\* except Exception as e: return {"success": False, "error": str(e)}
CTT_ExceptBad(e) == [kind |-> "raise", error |-> e]

CTT_Except(e) == [success |-> FALSE, error |-> e]

\* the token_info dict returned on success
CTT_TokenInfoBad(mint, payer) ==
  [success |-> TRUE,
   mint_address |-> PubkeyToString(payer),
   token_account |-> AssociatedTokenAddress(payer, mint),
   owner |-> PubkeyToString(payer),
   amount |-> 1000000000, decimals |-> 6, signature |-> "signature"]

CTT_TokenInfo(mint, payer) ==
  [success |-> TRUE,
   mint_address |-> PubkeyToString(mint),
   token_account |-> AssociatedTokenAddress(payer, mint),
   owner |-> PubkeyToString(payer),
   amount |-> 1000000000, decimals |-> 6, signature |-> "signature"]

\* the call, with client = AsyncClient(self.rpc_url) as its first statement
CTT_Call ==
  /\ m_fn = "idle"
  /\ MintCall("create_test_token", "get_balance", [none |-> TRUE], "open")

\* balance_resp = await client.get_balance(...), the early return for less
\* than 0.01 SOL, and mint_keypair = Keypair()
CTT_GetBalance ==
  /\ UNCHANGED nonMintVars
  /\ m_fn = "create_test_token"
  /\ m_pc = "get_balance"
  /\ m_rpc' = Append(m_rpc, "get_balance")
  /\ \E out \in GetBalanceOutcomes :
       IF out.kind = "raise"
       THEN /\ m_pc' = "done"
            /\ m_result' = CTT_Except("rpc error")
            /\ m_exc' = "rpc error"
            /\ UNCHANGED mint_keypair
       ELSE IF out.value < MinBalanceLamports
            THEN /\ m_pc' = "done"
                 /\ m_result' = [success |-> FALSE,
                                 error |-> "Insufficient balance"]
                 /\ UNCHANGED <<m_exc, mint_keypair>>
            ELSE /\ m_pc' = "get_minimum_balance_for_rent_exemption"
                 /\ mint_keypair' \in FreshKeys
                 /\ UNCHANGED <<m_result, m_exc>>
  /\ UNCHANGED <<payer_key, SOLANA_TARGET_ADDRESS, m_fn, m_args, m_client, m_tx,
                 token_pubkey>>

\* rent_response = await client.get_minimum_balance_for_rent_exemption(82),
\* recent_blockhash = await client.get_latest_blockhash(),
\* result = await client.send_transaction(transaction, opts=...) and
\* await client.confirm_transaction(signature)
CTT_Rpc ==
  /\ m_fn = "create_test_token"
  /\ RpcSteps(<<"get_minimum_balance_for_rent_exemption",
                "get_latest_blockhash", "send_transaction",
                "confirm_transaction">>, "save", CTT_Except("rpc error"))

\* json.dump(token_info, f) into test_spl_token_info.json, then
\* await client.close() and return token_info; a failing write goes to the
\* except clause
CTT_Save ==
  /\ UNCHANGED nonMintVars
  /\ m_fn = "create_test_token"
  /\ m_pc = "save"
  /\ \E ok \in BOOLEAN :
       IF ok THEN /\ m_client' = "closed"
                  /\ m_result' = CTT_TokenInfo(mint_keypair, payer_key)
                  /\ UNCHANGED m_exc
             ELSE /\ m_result' = CTT_Except("io error")
                  /\ m_exc' = "io error"
                  /\ UNCHANGED m_client
  /\ m_pc' = "done"
  /\ UNCHANGED <<payer_key, SOLANA_TARGET_ADDRESS, m_fn, m_args, m_rpc,
                 mint_keypair, m_tx, token_pubkey>>

\* ---- SimpleSPLTokenCreator.create_simple_token ----------------------------
\* except Exception as e: return {"success": False, "error": str(e)}
CST_Except(e) == [success |-> FALSE, error |-> e]

\* the call, with client = AsyncClient(self.rpc_url) as its first statement
CST_Call ==
  /\ m_fn = "idle"
  /\ MintCall("create_simple_token", "get_balance", [none |-> TRUE], "open")

\* balance_resp = await client.get_balance(...), the early return for less
\* than 0.01 SOL, token_client = AsyncToken(...) and mint_keypair = Keypair()
CST_GetBalance ==
  /\ UNCHANGED nonMintVars
  /\ m_fn = "create_simple_token"
  /\ m_pc = "get_balance"
  /\ m_rpc' = Append(m_rpc, "get_balance")
  /\ \E out \in GetBalanceOutcomes :
       IF out.kind = "raise"
       THEN /\ m_pc' = "done"
            /\ m_result' = CST_Except("rpc error")
            /\ m_exc' = "rpc error"
            /\ UNCHANGED mint_keypair
       ELSE IF out.value < MinBalanceLamports
            THEN /\ m_pc' = "done"
                 /\ m_result' = [success |-> FALSE,
                                 error |-> "Insufficient balance"]
                 /\ UNCHANGED <<m_exc, mint_keypair>>
            ELSE /\ m_pc' = "create_mint"
                 /\ mint_keypair' \in FreshKeys
                 /\ UNCHANGED <<m_result, m_exc>>
  /\ UNCHANGED <<payer_key, SOLANA_TARGET_ADDRESS, m_fn, m_args, m_client, m_tx,
                 token_pubkey>>

\* create_mint_resp = await AsyncToken.create_mint(...): the library makes
\* the mint keypair; mint_pubkey = token.pubkey
CST_CreateMint ==
  /\ UNCHANGED nonMintVars
  /\ m_fn = "create_simple_token"
  /\ m_pc = "create_mint"
  /\ m_rpc' = Append(m_rpc, "create_mint")
  /\ \E ok \in BOOLEAN :
       IF ok THEN /\ m_pc' = "create_associated_token_account"
                  /\ token_pubkey' \in FreshKeys
                  /\ UNCHANGED <<m_result, m_exc>>
             ELSE /\ m_pc' = "done"
                  /\ m_result' = CST_Except("rpc error")
                  /\ m_exc' = "rpc error"
                  /\ UNCHANGED token_pubkey
  /\ UNCHANGED <<payer_key, SOLANA_TARGET_ADDRESS, m_fn, m_args, m_client,
                 mint_keypair, m_tx>>

\* token_account_resp = await token.create_associated_token_account(owner=...)
\* and mint_resp = await token.mint_to(dest, mint_authority, amount)
CST_Rpc ==
  /\ m_fn = "create_simple_token"
  /\ RpcSteps(<<"create_associated_token_account", "mint_to">>, "save",
              CST_Except("rpc error"))

\* json.dump(token_info, f) into simple_spl_token_info.json, then
\* await client.close() and return token_info
CST_Save ==
  /\ UNCHANGED nonMintVars
  /\ m_fn = "create_simple_token"
  /\ m_pc = "save"
  /\ \E ok \in BOOLEAN :
       IF ok THEN /\ m_client' = "closed"
                  /\ m_result' =
                       [success |-> TRUE,
                        mint_address |-> PubkeyToString(token_pubkey),
                        token_account |->
                          AssociatedTokenAddress(payer_key, token_pubkey),
                        owner |-> PubkeyToString(payer_key),
                        amount |-> 1000000000, decimals |-> 6]
                  /\ UNCHANGED m_exc
             ELSE /\ m_result' = CST_Except("io error")
                  /\ m_exc' = "io error"
                  /\ UNCHANGED m_client
  /\ m_pc' = "done"
  /\ UNCHANGED <<payer_key, SOLANA_TARGET_ADDRESS, m_fn, m_args, m_rpc,
                 mint_keypair, m_tx, token_pubkey>>

\* ---- create_simple_spl_token_force.create_test_spl_token -------------------
\* where the function goes on behind one of its three token steps: each has
\* a try / except Exception of its own, which prints and falls through
CSF_AfterBad(step, raised) ==
  IF raised THEN "except"
  ELSE IF step = "create_mint" THEN "create_associated_token_account"
       ELSE IF step = "create_associated_token_account" THEN "mint_to"
            ELSE "save"

CSF_After(step, raised) ==
  IF step = "create_mint" THEN "create_associated_token_account"
  ELSE IF step = "create_associated_token_account" THEN "mint_to"
       ELSE "save"

\* the call, for values of SOLANA_TARGET_ADDRESS and SOLANA_PRIVKEY
CSF_Call ==
  /\ m_fn = "idle"
  /\ \E k \in {"unset", "keypair hex", "not hex"} : \E t \in BOOLEAN :
       MintCall("create_test_spl_token", "getenv",
                [privkey_hex |-> k, target_address |-> t, caught |-> <<>>,
                 written |-> FALSE], "none")

\* a step of create_test_spl_token.  The test of the environment returns
\* False; bytes.fromhex and Keypair.from_bytes stand before the try block,
\* so their exception leaves the function; then client = AsyncClient(...).
\* Inside the try block: get_balance and the return for less than 0.01 SOL;
\* the three token steps, whose exceptions are kept in caught; the dump of
\* token_info into simple_spl_token_info.json and return True.  The outer
\* except clause returns False, and the finally clause closes the client on
\* every way out of the try block.
create_test_spl_token ==
  /\ UNCHANGED nonMintVars
  /\ m_fn = "create_test_spl_token"
  /\ \/ /\ m_pc = "getenv"
        /\ IF ~m_args.target_address \/ m_args.privkey_hex = "unset"
           THEN /\ m_pc' = "done"
                /\ m_result' = [kind |-> "bool", value |-> FALSE]
                /\ UNCHANGED <<m_client, m_exc>>
           ELSE IF m_args.privkey_hex = "not hex"
                THEN /\ m_pc' = "done"
                     /\ m_result' = [kind |-> "raise", error |-> "parse error"]
                     /\ m_exc' = "parse error"
                     /\ UNCHANGED m_client
                ELSE /\ m_pc' = "get_balance"
                     /\ m_client' = "open"
                     /\ UNCHANGED <<m_result, m_exc>>
        /\ UNCHANGED <<m_args, m_rpc, mint_keypair>>
     \/ /\ m_pc = "get_balance"
        /\ m_rpc' = Append(m_rpc, "get_balance")
        /\ \E out \in GetBalanceOutcomes :
             IF out.kind = "raise" \/ out.value < MinBalanceLamports
             THEN /\ m_pc' = "done"
                  /\ m_client' = "closed"
                  /\ m_result' = [kind |-> "bool", value |-> FALSE]
                  /\ m_exc' = IF out.kind = "raise" THEN "rpc error" ELSE m_exc
                  /\ UNCHANGED mint_keypair
             ELSE /\ m_pc' = "create_mint"
                  /\ mint_keypair' \in FreshKeys
                  /\ UNCHANGED <<m_client, m_result, m_exc>>
        /\ UNCHANGED m_args
     \/ /\ m_pc \in {"create_mint", "create_associated_token_account",
                     "mint_to"}
        /\ m_rpc' = Append(m_rpc, m_pc)
        /\ \E raised \in BOOLEAN :
             /\ m_args' = IF raised
                          THEN [m_args EXCEPT !.caught = Append(@, m_pc)]
                          ELSE m_args
             /\ IF CSF_After(m_pc, raised) = "except"
                THEN /\ m_pc' = "done"
                     /\ m_client' = "closed"
                     /\ m_result' = [kind |-> "bool", value |-> FALSE]
                     /\ m_exc' = "rpc error"
                ELSE /\ m_pc' = CSF_After(m_pc, raised)
                     /\ UNCHANGED <<m_client, m_result, m_exc>>
        /\ UNCHANGED mint_keypair
     \/ /\ m_pc = "save"
        /\ \E written \in BOOLEAN :
             /\ m_args' = [m_args EXCEPT !.written = written]
             /\ m_result' = [kind |-> "bool", value |-> written]
             /\ m_exc' = IF written THEN m_exc ELSE "io error"
        /\ m_pc' = "done"
        /\ m_client' = "closed"
        /\ UNCHANGED <<m_rpc, mint_keypair>>
  /\ UNCHANGED <<payer_key, SOLANA_TARGET_ADDRESS, m_fn, m_tx, token_pubkey>>

\* ---- balance_checker.check_balance ----------------------------------------
\* the call, for a value of SOLANA_PRIVKEY: not set, a hex-encoded keypair,
\* other text
CB_Call ==
  /\ m_fn = "idle"
  /\ \E k \in {"unset", "keypair hex", "not hex"} :
       MintCall("check_balance", "getenv", [privkey_hex |-> k], "none")

\* the end of check_balance from inside the try block, normally or with
\* exception e: the except clause prints, the finally clause closes the
\* client; the function returns None
CB_End(e) ==
  /\ m_pc' = "done"
  /\ m_client' = "closed"
  /\ m_result' = NoneValue
  /\ m_exc' = e

\* if not privkey_hex: return; client = AsyncClient(rpc_url); the keypair is
\* made from the hex text inside the try block
CB_Getenv ==
  /\ UNCHANGED nonMintVars
  /\ m_fn = "check_balance"
  /\ m_pc = "getenv"
  /\ IF m_args.privkey_hex = "unset"
     THEN /\ m_pc' = "done"
          /\ m_result' = NoneValue
          /\ UNCHANGED <<m_client, m_exc>>
     ELSE IF m_args.privkey_hex = "not hex"
          THEN CB_End("parse error")
          ELSE /\ m_pc' = "get_balance"
               /\ m_client' = "open"
               /\ UNCHANGED <<m_result, m_exc>>
  /\ UNCHANGED <<payer_key, SOLANA_TARGET_ADDRESS, m_fn, m_args, m_rpc,
                 mint_keypair, m_tx, token_pubkey>>

\* balance_response = await client.get_balance(pubkey), then
\* target_pubkey = Pubkey.from_string(target_address) when it is set
CB_GetBalance ==
  /\ UNCHANGED nonMintVars
  /\ m_fn = "check_balance"
  /\ m_pc = "get_balance"
  /\ m_rpc' = Append(m_rpc, "get_balance")
  /\ \E ok \in BOOLEAN :
       IF ~ok THEN CB_End("rpc error")
       ELSE IF SOLANA_TARGET_ADDRESS = NoneValue
            THEN /\ m_pc' = "get_account_info"
                 /\ UNCHANGED <<m_client, m_result, m_exc>>
            ELSE IF PubkeyFromString(SOLANA_TARGET_ADDRESS.text).ok
                 THEN /\ m_pc' = "get_balance_target"
                      /\ UNCHANGED <<m_client, m_result, m_exc>>
                 ELSE CB_End("parse error")
  /\ UNCHANGED <<payer_key, SOLANA_TARGET_ADDRESS, m_fn, m_args, mint_keypair,
                 m_tx, token_pubkey>>

\* target_balance_response = await client.get_balance(target_pubkey), and
\* account_info = await client.get_account_info(pubkey) with the prints,
\* after which the function ends through the finally clause whatever the
\* call gave
CB_Rpc ==
  /\ UNCHANGED nonMintVars
  /\ m_fn = "check_balance"
  /\ \E ok \in BOOLEAN :
       \/ /\ m_pc = "get_balance_target"
          /\ m_rpc' = Append(m_rpc, "get_balance")
          /\ IF ok THEN /\ m_pc' = "get_account_info"
                        /\ UNCHANGED <<m_client, m_result, m_exc>>
                   ELSE CB_End("rpc error")
       \/ /\ m_pc = "get_account_info"
          /\ m_rpc' = Append(m_rpc, "get_account_info")
          /\ CB_End(IF ok THEN "none" ELSE "rpc error")
  /\ UNCHANGED <<payer_key, SOLANA_TARGET_ADDRESS, m_fn, m_args, mint_keypair,
                 m_tx, token_pubkey>>

\* ---- VulnerableTokenCreator.create_vulnerable_token -----------------------
\* the function has no try block: an exception leaves it
CVT_Propagate(e) == [kind |-> "raise", error |-> e]

\* the token_info dict returned on success; mint_authority is None for an
\* open mint (no tokens are minted then)
CVT_TokenInfo(vulnerability_type, mint, payer) ==
  [mint_address |-> PubkeyToString(mint),
   token_account |-> AssociatedTokenAddress(payer, mint),
   owner |-> PubkeyToString(payer),
   decimals |-> 9,
   supply |-> IF vulnerability_type \in {"open_mint", "all"}
              THEN 0 ELSE 1000000,
   open_mint |-> vulnerability_type \in {"open_mint", "all"},
   no_freeze |-> vulnerability_type \in {"no_freeze", "all"},
   vulnerability_type |-> vulnerability_type]

\* the call; the client was opened by __init__
CVT_Call ==
  /\ m_fn = "idle"
  /\ \E t \in {"open_mint", "no_freeze", "weak_authority", "all"} :
       MintCall("create_vulnerable_token", "get_balance",
                [vulnerability_type |-> t], "open")

\* balance = await self.client.get_balance(...), raise Exception for less
\* than 0.1 SOL, mint_keypair = Keypair()
CVT_GetBalance ==
  /\ UNCHANGED nonMintVars
  /\ m_fn = "create_vulnerable_token"
  /\ m_pc = "get_balance"
  /\ m_rpc' = Append(m_rpc, "get_balance")
  /\ \E out \in GetBalanceOutcomes :
       IF out.kind = "raise"
       THEN /\ m_pc' = "done"
            /\ m_result' = CVT_Propagate("rpc error")
            /\ m_exc' = "rpc error"
            /\ UNCHANGED mint_keypair
       ELSE IF out.value < VulnerableMinBalanceLamports
            THEN /\ m_pc' = "done"
                 /\ m_result' = CVT_Propagate("not enough SOL")
                 /\ m_exc' = "not enough SOL"
                 /\ UNCHANGED mint_keypair
            ELSE /\ m_pc' = "get_minimum_balance_for_rent_exemption"
                 /\ mint_keypair' \in FreshKeys
                 /\ UNCHANGED <<m_result, m_exc>>
  /\ UNCHANGED <<payer_key, SOLANA_TARGET_ADDRESS, m_fn, m_args, m_client, m_tx,
                 token_pubkey>>

\* min_balance = await self.client.get_minimum_balance_for_rent_exemption(MINT_LEN),
\* the blockhash and the send of the transaction with create_account and
\* initialize_mint, the blockhash and the send of the second transaction
\* (create_associated_token_account and, with a mint authority, mint_to)
CVT_Rpc ==
  /\ m_fn = "create_vulnerable_token"
  /\ RpcSteps(<<"get_minimum_balance_for_rent_exemption",
                "get_latest_blockhash", "send_transaction",
                "get_latest_blockhash (tx2)", "send_transaction (tx2)">>,
              "save", CVT_Propagate("rpc error"))

\* json.dump(token_info, f), await self.client.close(), return token_info
CVT_Save ==
  /\ UNCHANGED nonMintVars
  /\ m_fn = "create_vulnerable_token"
  /\ m_pc = "save"
  /\ \E ok \in BOOLEAN :
       IF ok THEN /\ m_client' = "closed"
                  /\ m_result' = CVT_TokenInfo(m_args.vulnerability_type,
                                               mint_keypair, payer_key)
                  /\ UNCHANGED m_exc
             ELSE /\ m_result' = CVT_Propagate("io error")
                  /\ m_exc' = "io error"
                  /\ UNCHANGED m_client
  /\ m_pc' = "done"
  /\ UNCHANGED <<payer_key, SOLANA_TARGET_ADDRESS, m_fn, m_args, m_rpc,
                 mint_keypair, m_tx, token_pubkey>>

\* ---- TokenCreator (src/core/token_creator.py) ------------------------------
\* an Optional[int] argument: None or an integer
IntValue(n) == [kind |-> "int", v |-> n]

\* x or default: the default replaces None and 0 alike
OrDefault(x, default) == IF x # NoneValue /\ x.v # 0 THEN x.v ELSE default

\* TokenConfig.default_decimals and TokenConfig.default_supply
default_decimals == 9

default_supply == 1000000000

\* except Exception as e: self.logger.error(...); raise, and
\* LogOperation.__exit__ returns False: the exception goes on to the caller
TC_Reraise(e) == [kind |-> "raise", error |-> e]

\* the TokenInfo returned by create_token
TC_TokenInfo(mint, payer, supply, decimals, mint_authority) ==
  [kind |-> "TokenInfo",
   mint_address |-> PubkeyToString(mint),
   token_account |-> AssociatedTokenAddress(payer, mint),
   metadata_account |-> NoneValue,
   total_supply |-> supply,
   decimals |-> decimals,
   freeze_authority |-> NoneValue,
   mint_authority |-> IF mint_authority = NoneValue
                      THEN PubkeyToString(payer)
                      ELSE PubkeyToString(mint_authority.key)]

\* the client was opened by __init__
TC_Call ==
  /\ m_fn = "idle"
  /\ \E supply \in {NoneValue, IntValue(0), IntValue(5)} :
     \E decimals \in {NoneValue, IntValue(0), IntValue(6)} :
     \E authority \in {NoneValue, [kind |-> "key", key |-> 58]} :
       MintCall("TokenCreator.create_token", "build",
                [initial_supply |-> supply, decimals |-> decimals,
                 mint_authority |-> authority,
                 local_initial_supply |-> NoneValue,
                 local_decimals |-> NoneValue], "open")

\* the defaults, mint_keypair = Keypair() and the instructions of the
\* transaction, up to the first awaited call
TC_Build ==
  /\ UNCHANGED nonMintVars
  /\ m_fn = "TokenCreator.create_token"
  /\ m_pc = "build"
  /\ m_args' = [m_args EXCEPT
        !.local_decimals = OrDefault(m_args.decimals, default_decimals),
        !.local_initial_supply = OrDefault(m_args.initial_supply, default_supply)]
  /\ mint_keypair' \in FreshKeys
  /\ m_tx' = <<"create_mint", "create_associated_token_account">>
               \o (IF m_args'.local_initial_supply > 0 THEN <<"mint_to">> ELSE <<>>)
  /\ m_pc' = "get_latest_blockhash"
  /\ UNCHANGED <<payer_key, SOLANA_TARGET_ADDRESS, m_fn, m_client, m_rpc,
                 m_result, m_exc, token_pubkey>>

\* transaction.recent_blockhash = (await self.client.get_latest_blockhash())...
TC_Blockhash ==
  /\ m_fn = "TokenCreator.create_token"
  /\ RpcSteps(<<"get_latest_blockhash">>, "send_transaction",
              TC_Reraise("rpc error"))

\* result = await self.client.send_transaction(transaction); with a value the
\* TokenInfo is made, saved and returned, without one an exception is raised
TC_Send ==
  /\ UNCHANGED nonMintVars
  /\ m_fn = "TokenCreator.create_token"
  /\ m_pc = "send_transaction"
  /\ m_rpc' = Append(m_rpc, "send_transaction")
  /\ \E out \in {"raise", "None", "signature"} :
       /\ m_exc' = IF out = "raise" THEN "rpc error"
                   ELSE IF out = "None" THEN "token not created" ELSE "none"
       /\ m_result' =
            IF m_exc' # "none" THEN TC_Reraise(m_exc')
            ELSE TC_TokenInfo(mint_keypair, payer_key,
                              m_args.local_initial_supply,
                              m_args.local_decimals, m_args.mint_authority)
  /\ m_pc' = "done"
  /\ UNCHANGED <<payer_key, SOLANA_TARGET_ADDRESS, m_fn, m_args, m_client,
                 mint_keypair, m_tx, token_pubkey>>

\* ---- create_token of src/create_token_final_v2.py -------------------------
\* owner_pubkey = Pubkey.from_string(SOLANA_TARGET_ADDRESS) if
\* SOLANA_TARGET_ADDRESS else payer_keypair.pubkey()
V2_Owner(target, payer) ==
  IF target = NoneValue THEN [ok |-> TRUE, key |-> payer]
  ELSE PubkeyFromString(target.text)

\* the token_info dict returned on success; initial_supply is
\* 1_000_000 * 10 ** decimals, kept as the pair of its factors
V2_TokenInfo(mint, owner, payer, args) ==
  [mint_address |-> PubkeyToString(mint),
   token_account |-> AssociatedTokenAddress(owner, mint),
   owner_address |-> PubkeyToString(owner),
   symbol |-> args.token_symbol,
   decimals |-> args.decimals,
   initial_supply |-> <<1000000, args.decimals>>,
   mint_authority |-> PubkeyToString(payer),
   freeze_authority |-> NoneValue]

\* the caller passes the client it opened
V2_Call ==
  /\ m_fn = "idle"
  /\ \E symbol \in {"AEXT", "MEXT", "REXT"} :
       MintCall("create_token", "get_balance",
                [token_symbol |-> symbol, decimals |-> 9], "open")

\* token_mint = Keypair(), token = AsyncToken(pubkey=token_mint.pubkey(), ...)
\* and balance_resp = client.get_balance(...)
V2_GetBalance ==
  /\ UNCHANGED nonMintVars
  /\ m_fn = "create_token"
  /\ m_pc = "get_balance"
  /\ mint_keypair' \in FreshKeys
  /\ token_pubkey' = mint_keypair'
  /\ m_rpc' = Append(m_rpc, "get_balance")
  /\ \E ok \in BOOLEAN :
       IF ok THEN m_pc' = "create_mint" /\ UNCHANGED <<m_result, m_exc>>
             ELSE /\ m_pc' = "done"
                  /\ m_result' = NoneValue
                  /\ m_exc' = "rpc error"
  /\ UNCHANGED <<payer_key, SOLANA_TARGET_ADDRESS, m_fn, m_args, m_client, m_tx>>

\* await token.create_mint(...), then owner_pubkey; a target address that
\* does not parse ends the call in the except clause
V2_CreateMint ==
  /\ UNCHANGED nonMintVars
  /\ m_fn = "create_token"
  /\ m_pc = "create_mint"
  /\ m_rpc' = Append(m_rpc, "create_mint")
  /\ \E ok \in BOOLEAN :
       IF ok /\ V2_Owner(SOLANA_TARGET_ADDRESS, payer_key).ok
       THEN /\ m_pc' = "create_associated_token_account"
            /\ UNCHANGED <<m_result, m_exc>>
       ELSE /\ m_pc' = "done"
            /\ m_result' = NoneValue
            /\ m_exc' = IF ok THEN "parse error" ELSE "rpc error"
  /\ UNCHANGED <<payer_key, SOLANA_TARGET_ADDRESS, m_fn, m_args, m_client,
                 mint_keypair, m_tx, token_pubkey>>

\* associated_token = await token.create_associated_token_account(owner=...)
V2_CreateAccount ==
  /\ m_fn = "create_token"
  /\ RpcSteps(<<"create_associated_token_account">>, "mint_to", NoneValue)

\* await token.mint_to(...) and return token_info
V2_MintTo ==
  /\ UNCHANGED nonMintVars
  /\ m_fn = "create_token"
  /\ m_pc = "mint_to"
  /\ m_rpc' = Append(m_rpc, "mint_to")
  /\ \E ok \in BOOLEAN :
       /\ m_exc' = IF ok THEN "none" ELSE "rpc error"
       /\ m_result' =
            IF ok THEN V2_TokenInfo(mint_keypair,
                                    V2_Owner(SOLANA_TARGET_ADDRESS, payer_key).key,
                                    payer_key, m_args)
                  ELSE NoneValue
  /\ m_pc' = "done"
  /\ UNCHANGED <<payer_key, SOLANA_TARGET_ADDRESS, m_fn, m_args, m_client,
                 mint_keypair, m_tx, token_pubkey>>

\* ------------------------------------------------------------------------
\* custom_token_deployer.py: the methods of CustomTokenDeployer and
\* run_comprehensive_token_tests; TokenCreator.mint_additional_tokens of
\* src/core/token_creator.py is a token operation of the same kind and is
\* called here as well (one call at a time)
\* ------------------------------------------------------------------------
\* a public key held by an attribute that is None before it is assigned
Key(k) == [kind |-> "key", key |-> k]

RECURSIVE Pow10(_)
Pow10(n) == IF n = 0 THEN 1 ELSE 10 * Pow10(n - 1)

\* the amount of a token instruction is packed as an unsigned 64-bit
\* integer: a negative amount raises when the instruction is built (the
\* amounts of the model stay far below 2^64)
FitsU64(amount) == amount >= 0

\* the state after CustomTokenDeployer.__init__, for a TokenConfig
DeployerStarted(decimals, initial_supply, burn_enabled) ==
  /\ config = [decimals |-> decimals, initial_supply |-> initial_supply,
               burn_enabled |-> burn_enabled]
  /\ token_address = NoneValue
  /\ token_account = NoneValue
  /\ test_results = <<>>
  /\ run_pc = "idle"
  /\ balance = 0
  /\ run_result = NoResult
  /\ t_fn = "none"
  /\ t_pc = "none"
  /\ t_amount = 0
  /\ t_log = <<>>
  /\ t_ret = NoResult

\* the TokenTestResult a method returns: the one of its except clause when
\* exception err was raised, the successful one with data otherwise
TokenTestResultBad(test_name, err, data) ==
  [test_name |-> test_name,
   success |-> err = "none",
   transaction_signature |-> Text("signature"),
   error_message |-> IF err = "none" THEN NoneValue ELSE Text(err),
   data |-> IF err = "none" THEN data ELSE NoneValue]

TokenTestResult(test_name, err, data) ==
  [test_name |-> test_name,
   success |-> err = "none",
   transaction_signature |-> IF err = "none" THEN Text("signature")
                             ELSE NoneValue,
   error_message |-> IF err = "none" THEN NoneValue ELSE Text(err),
   data |-> IF err = "none" THEN data ELSE NoneValue]

\* one step of a method whose awaited RPC calls are `calls`: the code
\* before the first call ("entry"), or a call with the code that follows
\* it.  The call may raise, the code raises local_error (when that is not
\* "none"); either ends the method in its except clause.  After the last
\* call the attribute `assigns` is assigned (logged) and the successful
\* result is returned.
MethodStep(calls, local_error, assigns, data) ==
  /\ UNCHANGED nonTokenVars
  /\ \E i \in 0..Len(calls) : \E raised \in BOOLEAN :
       LET err == IF raised THEN "rpc error" ELSE local_error
           ends == err # "none" \/ i = Len(calls)
       IN  /\ t_pc = IF i = 0 THEN "entry" ELSE calls[i]
           /\ raised => i > 0
           /\ t_log' = t_log
                \o (IF i = 0 THEN <<>>
                    ELSE <<[fn |-> t_fn, call |-> calls[i], raised |-> raised]>>)
                \o (IF err = "none" /\ ends /\ assigns # "none"
                    THEN <<[fn |-> t_fn, call |-> assigns, raised |-> FALSE]>>
                    ELSE <<>>)
           /\ t_pc' = IF ends THEN "return" ELSE calls[i + 1]
           /\ t_ret' = IF ends THEN TokenTestResult(t_fn, err, data) ELSE t_ret
  /\ UNCHANGED <<config, test_results, run_pc, balance, run_result, t_fn,
                 t_amount>>

\* the method returned its successful result in this step
Succeeded == t_pc' = "return" /\ t_ret'.success

\* create_token_mint: rent for 82 bytes, send, confirm, then
\* self.token_address = self.mint_keypair.pubkey()
create_token_mint ==
  /\ t_fn = "create_token_mint"
  /\ MethodStep(<<"get_minimum_balance_for_rent_exemption",
                  "send_transaction", "confirm_transaction">>,
                "none", "token_address",
                [mint_address |-> PubkeyToString(58),
                 decimals |-> config.decimals,
                 mint_authority |-> PubkeyToString(1)])
  /\ token_address' = IF Succeeded THEN Key(58) ELSE token_address
  /\ UNCHANGED token_account

\* create_token_account: ValueError without a mint, Keypair(), rent for 165
\* bytes, send, confirm, then self.token_account = the new keypair's pubkey
create_token_account ==
  /\ t_fn = "create_token_account"
  /\ \E k \in {57, 255} :
       /\ MethodStep(<<"get_minimum_balance_for_rent_exemption",
                       "send_transaction", "confirm_transaction">>,
                     IF t_pc = "entry" /\ token_address = NoneValue
                     THEN "mint not created" ELSE "none",
                     "token_account",
                     [token_account |-> PubkeyToString(k),
                      owner |-> PubkeyToString(1),
                      mint |-> token_address])
       /\ token_account' = IF Succeeded THEN Key(k) ELSE token_account
  /\ UNCHANGED token_address

\* mint_tokens(amount): ValueError without a mint or a token account, the
\* mint_to instruction, send, confirm
mint_tokens ==
  /\ t_fn = "mint_tokens"
  /\ MethodStep(<<"send_transaction", "confirm_transaction">>,
                IF t_pc # "entry" THEN "none"
                ELSE IF NoneValue \in {token_address, token_account}
                     THEN "mint or token account not created"
                     ELSE IF FitsU64(t_amount) THEN "none"
                          ELSE "amount out of range",
                "none", [amount_minted |-> t_amount])
  /\ UNCHANGED <<token_address, token_account>>

\* test_token_transfer(amount): Keypair(), rent for 165 bytes, then the
\* create_account, initialize_account and transfer instructions, send,
\* confirm
test_token_transfer ==
  /\ t_fn = "test_token_transfer"
  /\ MethodStep(<<"get_minimum_balance_for_rent_exemption",
                  "send_transaction", "confirm_transaction">>,
                IF t_pc # "get_minimum_balance_for_rent_exemption" THEN "none"
                ELSE IF NoneValue \in {token_address, token_account}
                     THEN "not a public key"
                     ELSE IF FitsU64(t_amount) THEN "none"
                          ELSE "amount out of range",
                "none", [amount_transferred |-> t_amount])
  /\ UNCHANGED <<token_address, token_account>>

\* test_token_burn(amount): the burn instruction, send, confirm
test_token_burn ==
  /\ t_fn = "test_token_burn"
  /\ MethodStep(<<"send_transaction", "confirm_transaction">>,
                IF t_pc # "entry" THEN "none"
                ELSE IF NoneValue \in {token_address, token_account}
                     THEN "not a public key"
                     ELSE IF FitsU64(t_amount) THEN "none"
                          ELSE "amount out of range",
                "none", [amount_burned |-> t_amount])
  /\ UNCHANGED <<token_address, token_account>>

\* get_token_info: {"error": ...} without a mint or from the except clause,
\* else the dict made of get_account_info for the mint and, when there is a
\* token account, for the token account
get_token_info ==
  /\ UNCHANGED nonTokenVars
  /\ t_fn = "get_token_info"
  /\ \/ /\ t_pc = "entry"
        /\ IF token_address = NoneValue
           THEN t_pc' = "return" /\ t_ret' = [error |-> "Token not created"]
           ELSE t_pc' = "get_account_info" /\ UNCHANGED t_ret
        /\ UNCHANGED t_log
     \/ /\ t_pc \in {"get_account_info", "get_account_info (token account)"}
        /\ \E out \in {"raise", "None", "account"} :
             LET info == [lamports |-> IF out = "account" THEN 5 ELSE 0,
                          owner |-> IF out = "account" THEN Text("owner")
                                    ELSE NoneValue]
             IN
             /\ t_log' = Append(t_log, [fn |-> t_fn, call |-> "get_account_info",
                                        raised |-> out = "raise"])
             /\ IF out = "raise"
                THEN t_pc' = "return" /\ t_ret' = [error |-> "rpc error"]
                ELSE IF t_pc = "get_account_info"
                     THEN /\ t_ret' =
                               [mint_address |-> PubkeyToString(token_address.key),
                                token_account |->
                                  IF token_account = NoneValue THEN NoneValue
                                  ELSE Text(PubkeyToString(token_account.key)),
                                mint_info |-> info,
                                token_account_info |-> NoneValue]
                          /\ t_pc' = IF token_account = NoneValue THEN "return"
                                     ELSE "get_account_info (token account)"
                     ELSE /\ t_ret' = [t_ret EXCEPT !.token_account_info = info]
                          /\ t_pc' = "return"
  /\ UNCHANGED <<config, token_address, token_account, test_results, run_pc,
                 balance, run_result, t_fn, t_amount>>

\* TokenCreator.mint_additional_tokens(mint_address, amount): the PublicKey
\* of the address and the mint_to instruction, get_latest_blockhash, send;
\* True when the send gave a value, False otherwise and from the except
\* clause
mint_additional_tokens ==
  /\ UNCHANGED nonTokenVars
  /\ t_fn = "mint_additional_tokens"
  /\ \/ /\ t_pc = "entry"
        /\ \E mint_address \in {<<"2">>, <<"0", "O">>} :
             IF PubkeyFromString(mint_address).ok /\ FitsU64(t_amount)
             THEN t_pc' = "get_latest_blockhash" /\ UNCHANGED t_ret
             ELSE t_pc' = "return" /\ t_ret' = [kind |-> "bool", value |-> FALSE]
        /\ UNCHANGED t_log
     \/ /\ t_pc = "get_latest_blockhash"
        /\ \E raised \in BOOLEAN :
             /\ t_log' = Append(t_log, [fn |-> t_fn, call |-> t_pc,
                                        raised |-> raised])
             /\ IF raised
                THEN t_pc' = "return" /\ t_ret' = [kind |-> "bool", value |-> FALSE]
                ELSE t_pc' = "send_transaction" /\ UNCHANGED t_ret
     \/ /\ t_pc = "send_transaction"
        /\ \E out \in {"raise", "None", "signature"} :
             /\ t_log' = Append(t_log, [fn |-> t_fn, call |-> t_pc,
                                        raised |-> out = "raise"])
             /\ t_ret' = [kind |-> "bool", value |-> out = "signature"]
        /\ t_pc' = "return"
  /\ UNCHANGED <<config, token_address, token_account, test_results, run_pc,
                 balance, run_result, t_fn, t_amount>>

\* a call of one of the methods on the deployer (or of
\* mint_additional_tokens) outside a test run, and its return
D_Call ==
  /\ UNCHANGED nonTokenVars
  /\ run_pc = "idle"
  /\ t_fn = "none"
  /\ \E fn \in {"create_token_mint", "create_token_account", "mint_tokens",
                "test_token_transfer", "test_token_burn", "get_token_info",
                "mint_additional_tokens"} :
     \E amount \in {-1, 0, 1} :
       /\ t_fn' = fn
       /\ t_amount' = IF fn \in {"mint_tokens", "test_token_transfer",
                                 "test_token_burn", "mint_additional_tokens"}
                      THEN amount ELSE 0
  /\ t_pc' = "entry"
  /\ t_log' = <<>>
  /\ t_ret' = NoResult
  /\ UNCHANGED <<config, token_address, token_account, test_results, run_pc,
                 balance, run_result>>

D_Return ==
  /\ UNCHANGED nonTokenVars
  /\ run_pc = "idle"
  /\ t_pc = "return"
  /\ t_fn' = "none"
  /\ t_pc' = "none"
  /\ UNCHANGED <<config, token_address, token_account, test_results, run_pc,
                 balance, run_result, t_amount, t_log, t_ret>>

\* check_balance: the balance in lamports, 0.0 from the except clause
check_balance ==
  /\ UNCHANGED nonTokenVars
  /\ run_pc = "check_balance"
  /\ \E out \in GetBalanceOutcomes :
       /\ t_log' = Append(t_log, [fn |-> "check_balance", call |-> "get_balance",
                                  raised |-> out.kind = "raise"])
       /\ balance' = IF out.kind = "raise" THEN 0 ELSE out.value
  /\ run_pc' = "balance checked"
  /\ UNCHANGED <<config, token_address, token_account, test_results,
                 run_result, t_fn, t_pc, t_amount, t_ret>>

\* the steps of the run in order; test_token_burn only when burn_enabled
RunStepsBad ==
  <<"create_token_mint", "create_token_account", "test_token_transfer",
    "mint_tokens">>
    \o (IF config.burn_enabled THEN <<"test_token_burn">> ELSE <<>>)
    \o <<"get_token_info">>

RunSteps ==
  <<"create_token_mint", "create_token_account", "mint_tokens",
    "test_token_transfer">>
    \o (IF config.burn_enabled THEN <<"test_token_burn">> ELSE <<>>)
    \o <<"get_token_info">>

\* the amount the run passes to a step: mint_amount, transfer_amount,
\* burn_amount
RunAmount(fn) ==
  LET mint_amount == config.initial_supply * Pow10(config.decimals)
      Min(a, b) == IF a < b THEN a ELSE b
  IN  IF fn = "mint_tokens" THEN mint_amount
      ELSE IF fn = "test_token_transfer"
           THEN Min(1000 * Pow10(config.decimals), mint_amount \div 2)
           ELSE IF fn = "test_token_burn"
                THEN Min(500 * Pow10(config.decimals), mint_amount \div 4)
                ELSE 0

\* a failed create_token_mint or create_token_account stops the run
StopsRunBad(result) == FALSE

StopsRun(result) ==
  /\ result.test_name \in {"create_token_mint", "create_token_account"}
  /\ ~result.success

\* if balance < 0.01 (SOL; the model keeps lamports)
InsufficientBalanceBad(lamports) == FALSE

InsufficientBalance(lamports) == lamports < MinBalanceLamports

\* the dict returned when step fn stopped the run
RunErrorBad(fn) == [error |-> "Failed to create token mint"]

RunError(fn) ==
  [error |-> IF fn = "create_token_mint" THEN "Failed to create token mint"
             ELSE "Failed to create token account"]

\* run_comprehensive_token_tests(config): the call, the balance test, and
\* after each step the append to test_results with the choice of what
\* follows; after get_token_info the result dict
run_comprehensive_token_tests ==
  /\ UNCHANGED nonTokenVars
  /\ \/ /\ run_pc = "idle"
        /\ t_fn = "none"
        /\ run_pc' = "check_balance"
        /\ t_log' = <<>>
        /\ UNCHANGED <<test_results, run_result, t_fn, t_pc, t_amount, t_ret>>
     \/ /\ run_pc = "balance checked"
        /\ IF InsufficientBalance(balance)
           THEN /\ run_pc' = "done"
                /\ run_result' = [error |-> "Insufficient SOL balance"]
                /\ UNCHANGED <<t_fn, t_pc>>
           ELSE /\ run_pc' = RunSteps[1]
                /\ t_fn' = RunSteps[1]
                /\ t_pc' = "entry"
                /\ UNCHANGED run_result
        /\ UNCHANGED <<test_results, t_amount, t_log, t_ret>>
     \/ /\ run_pc = t_fn
        /\ t_pc = "return"
        /\ t_fn # "get_token_info"
        /\ test_results' = Append(test_results, t_ret)
        /\ IF StopsRun(t_ret)
           THEN /\ run_pc' = "done"
                /\ run_result' = RunError(t_fn)
                /\ t_fn' = "none"
                /\ t_pc' = "none"
                /\ UNCHANGED t_amount
           ELSE \E i \in 1..(Len(RunSteps) - 1) :
                  /\ RunSteps[i] = t_fn
                  /\ run_pc' = RunSteps[i + 1]
                  /\ t_fn' = RunSteps[i + 1]
                  /\ t_pc' = "entry"
                  /\ t_amount' = RunAmount(RunSteps[i + 1])
                  /\ UNCHANGED run_result
        /\ UNCHANGED <<t_log, t_ret>>
     \/ /\ run_pc = "get_token_info"
        /\ t_fn = "get_token_info"
        /\ t_pc = "return"
        /\ run_pc' = "done"
        /\ run_result' =
             [token_config |-> config,
              test_results |-> test_results,
              token_info |-> t_ret,
              final_stats |->
                [total_tests |-> Len(test_results),
                 successful_tests |->
                   Cardinality({i \in 1..Len(test_results) :
                                  test_results[i].success}),
                 wallet_balance |-> balance]]
        /\ t_fn' = "none"
        /\ t_pc' = "none"
        /\ UNCHANGED <<test_results, t_amount, t_log, t_ret>>
  /\ UNCHANGED <<config, token_address, token_account, balance>>

\* ------------------------------------------------------------------------
\* The report writers: CustomTokenDeployer.save_token_report and
\* CreatedAccountTester.generate_report, both
\* json.dump(report, f, indent=2, ensure_ascii=False, default=str).
\* A Python value is a record with its kind; a string is a sequence of
\* characters, among them QUOTE, BACKSLASH, NEWLINE and the non-ASCII
\* E_ACUTE.  The text written is a sequence of JSON tokens (the white space
\* of indent=2 lies between tokens and is left out); a string token holds
\* the characters between its quotes.
\* ------------------------------------------------------------------------
Str(chars) == [kind |-> "str", chars |-> chars]

Dict(items) == [kind |-> "dict", items |-> items]

\* values without parts: None, booleans, integers, strings, floats (1.5 and
\* nan) and an object json cannot serialize, which default=str turns into
\* its str() text
JsonLeaves ==
  {NoneValue, [kind |-> "bool", b |-> TRUE], [kind |-> "bool", b |-> FALSE],
   [kind |-> "int", v |-> 0], [kind |-> "int", v |-> 7],
   [kind |-> "float", f |-> "1.5"], [kind |-> "float", f |-> "nan"],
   [kind |-> "object", repr |-> <<"o", "QUOTE">>]}
  \cup {Str(s) : s \in {<<>>, <<"a">>, <<"QUOTE">>, <<"BACKSLASH", "n">>,
                        <<"NEWLINE">>, <<"E_ACUTE">>}}

\* the values a field of a result dict holds: leaves, lists of leaves and
\* dicts of leaves (keys: strings, or an integer)
JsonValues ==
  JsonLeaves
  \cup {[kind |-> "list", items |-> s] :
          s \in UNION {[1..n -> JsonLeaves] : n \in 0..MaxItems}}
  \cup {Dict(<<[key |-> k, value |-> v]>>) :
          k \in {Str(<<"k">>), Str(<<"QUOTE">>), [kind |-> "int", v |-> 1]},
          v \in JsonLeaves}

\* the characters of a string between the quotes of its token: quote,
\* backslash and control characters are escaped, non-ASCII characters are
\* written as they are (ensure_ascii=False)
RECURSIVE Escape(_)
Escape(chars) ==
  IF chars = <<>> THEN <<>>
  ELSE (IF Head(chars) \in {"QUOTE", "BACKSLASH"}
        THEN <<"BACKSLASH", Head(chars)>>
        ELSE IF Head(chars) = "NEWLINE" THEN <<"BACKSLASH", "n">>
             ELSE <<Head(chars)>>)
       \o Escape(Tail(chars))

\* the string a token's characters denote; a bare quote or control
\* character and an unknown escape are errors
RECURSIVE Unescape(_)
Unescape(chars) ==
  IF chars = <<>> THEN [ok |-> TRUE, chars |-> <<>>]
  ELSE IF Head(chars) \in {"QUOTE", "NEWLINE"} THEN [ok |-> FALSE]
  ELSE IF Head(chars) # "BACKSLASH"
       THEN LET rest == Unescape(Tail(chars))
            IN  IF rest.ok
                THEN [ok |-> TRUE, chars |-> <<Head(chars)>> \o rest.chars]
                ELSE rest
  ELSE IF Len(chars) < 2 \/ chars[2] \notin {"QUOTE", "BACKSLASH", "n"}
       THEN [ok |-> FALSE]
       ELSE LET rest == Unescape(Tail(Tail(chars)))
            IN  IF rest.ok
                THEN [ok |-> TRUE,
                      chars |-> <<IF chars[2] = "n" THEN "NEWLINE"
                                  ELSE chars[2]>> \o rest.chars]
                ELSE rest

\* json.dump: the tokens written for a value.  A dict key that is an
\* integer is written as the string of its digits; nan is written as the
\* token NaN (allow_nan is left at its default).
RECURSIVE Dump(_)
Dump(v) ==
  LET Token(t) == [t |-> t]
      String(chars) == [t |-> "string", chars |-> Escape(chars)]
      RECURSIVE Join(_, _)
      Join(items, member) ==
        IF items = <<>> THEN <<>>
        ELSE (IF member
              THEN <<String(IF Head(items).key.kind = "str"
                            THEN Head(items).key.chars
                            ELSE <<"1">>),
                     Token(":")>> \o Dump(Head(items).value)
              ELSE Dump(Head(items)))
             \o (IF Len(items) > 1 THEN <<Token(",")>> ELSE <<>>)
             \o Join(Tail(items), member)
  IN  CASE v.kind = "None" -> <<Token("null")>>
        [] v.kind = "bool" -> <<Token(IF v.b THEN "true" ELSE "false")>>
        [] v.kind = "int" -> <<[t |-> "number", n |-> v.v]>>
        [] v.kind = "float" -> IF v.f = "nan" THEN <<Token("NaN")>>
                               ELSE <<[t |-> "number", x |-> v.f]>>
        [] v.kind = "str" -> <<String(v.chars)>>
        [] v.kind = "object" -> <<String(v.repr)>>
        [] v.kind = "list" ->
             <<Token("[")>> \o Join(v.items, FALSE) \o <<Token("]")>>
        [] v.kind = "dict" ->
             <<Token("{")>> \o Join(v.items, TRUE) \o <<Token("}")>>

\* json.load: the value a token sequence denotes and the tokens left behind
\* it, or an error.  Python's decoder reads the token NaN as the float nan.
RECURSIVE Load(_, _, _)
Load(tokens, inside, items) ==
  LET Fail == [ok |-> FALSE]
      \* the value, then what follows it inside a list or a dict
      After(value, rest) ==
        IF inside = "value" THEN [ok |-> TRUE, value |-> value, rest |-> rest]
        ELSE IF rest = <<>> THEN Fail
        ELSE IF rest[1].t = ","
             THEN Load(Tail(rest), inside, Append(items, value))
             ELSE IF rest[1].t = (IF inside = "list" THEN "]" ELSE "}")
                  THEN [ok |-> TRUE,
                        value |-> [kind |-> inside,
                                   items |-> Append(items, value)],
                        rest |-> Tail(rest)]
                  ELSE Fail
      Value(ts, wrap(_)) ==
        IF ts = <<>> THEN Fail
        ELSE LET h == ts[1] IN
          CASE h.t = "null" -> After(wrap(NoneValue), Tail(ts))
            [] h.t \in {"true", "false"} ->
                 After(wrap([kind |-> "bool", b |-> h.t = "true"]), Tail(ts))
            [] h.t = "NaN" ->
                 After(wrap([kind |-> "float", f |-> "nan"]), Tail(ts))
            [] h.t = "number" ->
                 After(wrap(IF "n" \in DOMAIN h
                            THEN [kind |-> "int", v |-> h.n]
                            ELSE [kind |-> "float", f |-> h.x]), Tail(ts))
            [] h.t = "string" ->
                 IF Unescape(h.chars).ok
                 THEN After(wrap(Str(Unescape(h.chars).chars)), Tail(ts))
                 ELSE Fail
            [] h.t \in {"[", "{"} ->
                 LET kind == IF h.t = "[" THEN "list" ELSE "dict"
                     close == IF h.t = "[" THEN "]" ELSE "}"
                     inner ==
                       IF Len(ts) > 1 /\ ts[2].t = close
                       THEN [ok |-> TRUE,
                             value |-> [kind |-> kind, items |-> <<>>],
                             rest |-> Tail(Tail(ts))]
                       ELSE Load(Tail(ts), kind, <<>>)
                 IN  IF inner.ok THEN After(wrap(inner.value), inner.rest)
                     ELSE Fail
            [] OTHER -> Fail
      Same(value) == value
  IN  IF inside # "dict" THEN Value(tokens, Same)
      ELSE IF Len(tokens) < 2 \/ tokens[1].t # "string" \/ tokens[2].t # ":"
              \/ ~Unescape(tokens[1].chars).ok
           THEN Fail
           ELSE LET Member(value) ==
                      [key |-> Str(Unescape(tokens[1].chars).chars),
                       value |-> value]
                IN  Value(Tail(Tail(tokens)), Member)

\* the text is a JSON text of RFC 8259: one value and nothing behind it,
\* and no NaN, which the grammar of JSON does not have
ValidJson(tokens) ==
  /\ Load(tokens, "value", <<>>).ok
  /\ Load(tokens, "value", <<>>).rest = <<>>
  /\ \A i \in 1..Len(tokens) : tokens[i].t # "NaN"

\* str(pubkey) of an attribute that may be None
StrOrNone(attribute) ==
  IF attribute = NoneValue THEN NoneValue
  ELSE Str(PubkeyToString(attribute.key))

ReportStarted ==
  /\ r_fn = "idle"
  /\ r_pc = "idle"
  /\ r_input = NoneValue
  /\ r_text = <<>>
  /\ r_loaded = NoResult

\* save_token_report(results): the report with the metadata and the results,
\* written with json.dump
save_token_report ==
  /\ UNCHANGED nonReportVars
  /\ r_pc = "idle"
  /\ \E value \in JsonValues :
       r_input' = Dict(<<[key |-> Str(<<"r">>), value |-> value]>>)
  /\ r_text' = Dump(Dict(<<
       [key |-> Str(<<"metadata">>),
        value |-> Dict(<<
          [key |-> Str(<<"timestamp">>),
           value |-> [kind |-> "float", f |-> "1.5"]],
          [key |-> Str(<<"wallet_pubkey">>), value |-> Str(PubkeyToString(1))],
          [key |-> Str(<<"mint_address">>), value |-> StrOrNone(token_address)],
          [key |-> Str(<<"token_account">>), value |-> StrOrNone(token_account)],
          [key |-> Str(<<"test_type">>),
           value |-> Str(<<"custom_token_deployment">>)]>>)],
       [key |-> Str(<<"results">>), value |-> r_input']>>))
  /\ r_fn' = "save_token_report"
  /\ r_pc' = "written"
  /\ r_loaded' = NoResult

\* generate_report(results): results is a list of dicts; the report counts
\* those whose "success" is true and those whose is not
generate_report ==
  /\ UNCHANGED nonReportVars
  /\ r_pc = "idle"
  /\ \E n \in 0..MaxItems : \E fields \in [1..n -> JsonLeaves] :
       r_input' = [kind |-> "list",
                   items |-> [i \in 1..n |->
                                Dict(<<[key |-> Str(<<"success">>),
                                        value |-> fields[i]]>>)]]
  /\ LET Truth(v) == v \notin {NoneValue, [kind |-> "bool", b |-> FALSE],
                               [kind |-> "int", v |-> 0], Str(<<>>)}
         successful == Cardinality({i \in 1..Len(r_input'.items) :
                                      Truth(r_input'.items[i].items[1].value)})
     IN  r_text' = Dump(Dict(<<
           [key |-> Str(<<"timestamp">>), value |-> Str(<<"2025">>)],
           [key |-> Str(<<"test_type">>),
            value |-> Str(<<"created_accounts_testing">>)],
           [key |-> Str(<<"wallet_address">>),
            value |-> Str(PubkeyToString(1))],
           [key |-> Str(<<"target_accounts">>),
            value |-> [kind |-> "list", items |-> <<Str(PubkeyToString(57))>>]],
           [key |-> Str(<<"total_tests">>),
            value |-> [kind |-> "int", v |-> Len(r_input'.items)]],
           [key |-> Str(<<"successful_tests">>),
            value |-> [kind |-> "int", v |-> successful]],
           [key |-> Str(<<"failed_tests">>),
            value |-> [kind |-> "int",
                       v |-> Len(r_input'.items) - successful]],
           [key |-> Str(<<"results">>), value |-> r_input']>>))
  /\ r_fn' = "generate_report"
  /\ r_pc' = "written"
  /\ r_loaded' = NoResult

\* a reader loads the report with json.load
load_report ==
  /\ UNCHANGED nonReportVars
  /\ r_pc = "written"
  /\ r_loaded' = Load(r_text, "value", <<>>)
  /\ r_pc' = "loaded"
  /\ UNCHANGED <<r_fn, r_input, r_text>>

\* ------------------------------------------------------------------------
\* src/utils/config.py: ConfigManager.  A Config is reduced to the value of
\* one of its settings; Config() has the value "default".  The file holds a
\* literal value or the reference "$VAR" to an environment variable.
\* ------------------------------------------------------------------------
MaxReads == 3

\* a Config whose setting has value v; Config("default") is Config()
Config(v) == [kind |-> "Config", setting |-> v]

\* _replace_env_vars on a string: os.getenv(var_name, data) for "$VAR"
ReplaceEnvVars(data) ==
  IF data = "$VAR" /\ environ # EnvNone THEN environ ELSE data

\* if self._config is None
NeedsLoadBad(c) == TRUE

NeedsLoad(c) == c = NoneValue

\* the state after ConfigManager()
ConfigStarted(file, env) ==
  /\ config_file = file
  /\ environ = env
  /\ _config = NoneValue
  /\ cm_reads = 0
  /\ cm_op = "none"
  /\ cm_ret = NoResult

\* load_config called with self._config = c: (re)reads the file when c is
\* None; Config() when the file is missing or cannot be parsed
LoadConfig(c) ==
  /\ IF NeedsLoad(c)
     THEN /\ cm_reads < MaxReads
          /\ cm_reads' = cm_reads + 1
          /\ _config' = IF config_file \in {"missing", "invalid"}
                        THEN Config("default")
                        ELSE Config(ReplaceEnvVars(config_file))
     ELSE /\ _config' = c
          /\ UNCHANGED cm_reads
  /\ cm_ret' = _config'
  /\ UNCHANGED <<nonUtilVars, pmVars, target_pubkey, sc_ret,
                 config_file, environ>>

load_config == cm_op' = "load_config" /\ LoadConfig(_config)

\* get_config: load_config() when self._config is None, else self._config
get_config ==
  /\ cm_op' = "get_config"
  /\ IF _config = NoneValue THEN LoadConfig(_config)
     ELSE /\ cm_ret' = _config
          /\ UNCHANGED <<nonUtilVars, pmVars, target_pubkey, sc_ret,
                 config_file, environ, _config, cm_reads>>

\* reload_config: self._config = None; return self.load_config()
reload_config == cm_op' = "reload_config" /\ LoadConfig(NoneValue)

\* save_config(config): writes the file and caches config; an exception of
\* makedirs leaves the file alone, one raised after open(..., 'w') leaves a
\* file that cannot be parsed; both are re-raised
save_config ==
  /\ cm_op' = "save_config"
  /\ \E config_arg \in {"default", "A", "B"} :
     \E out \in {"saved", "makedirs raised", "dump raised"} :
       /\ config_file' = IF out = "saved" THEN config_arg
                         ELSE IF out = "dump raised" THEN "invalid"
                              ELSE config_file
       /\ _config' = IF out = "saved" THEN Config(config_arg) ELSE _config
       /\ cm_ret' = IF out = "saved" THEN NoneValue ELSE Raise
  /\ UNCHANGED <<nonUtilVars, pmVars, target_pubkey, sc_ret,
                 environ, cm_reads>>

\* the file and the environment change outside the program
ConfigEnvironment ==
  /\ cm_op' = "environment"
  /\ config_file' \in {"missing", "invalid", "A", "$VAR"}
  /\ environ' \in {EnvNone, "B"}
  /\ UNCHANGED <<nonUtilVars, pmVars, target_pubkey, sc_ret,
                 _config, cm_reads, cm_ret>>

\* ------------------------------------------------------------------------
\* src/analytics/price_monitor.py: PriceMonitor.  A dict is a function on
\* its keys.  A PriceData is reduced to its price (the source that gave it
\* is the last one the task queried); the price a source delivers is the
\* number of the delivery, so that every price is different.  Coroutines run on one event loop: a step of a task is the code
\* between two awaits that suspend it.
\* ------------------------------------------------------------------------
MaxUpdates == 4

MaxOverflow == 3

\* the history keeps the last 1000 entries
HistoryLimit == 1000

\* the sources of update_token_price in the order it awaits them
PriceSourcesBad == <<"Jupiter", "DexScreener">>

PriceSources == <<"DexScreener", "Jupiter">>

\* d[k] = v
DictSetBad(d, k, v) == [x \in DOMAIN d \cup {k} |-> v]

DictSet(d, k, v) == [x \in DOMAIN d \cup {k} |-> IF x = k THEN v ELSE d[x]]

\* self.price_history[token_address][-1000:] when it has more than 1000
TrimHistoryBad(h) ==
  IF Len(h) > HistoryLimit THEN SubSeq(h, 1, HistoryLimit) ELSE h

TrimHistory(h) ==
  IF Len(h) > HistoryLimit
  THEN SubSeq(h, Len(h) - HistoryLimit + 1, Len(h)) ELSE h

\* the state after PriceMonitor(), with the token addresses the callers use
\* and the number of prices the sources deliver
MonitorStarted(tokens, updates) ==
  /\ monitored_tokens = <<>>
  /\ price_history = [x \in {} |-> <<>>]
  /\ current_prices = [x \in {} |-> NoneValue]
  /\ pm_tasks = <<>>
  /\ pm_seq = 0
  /\ pm_obtained = [t \in tokens |-> <<>>]
  /\ pm_limit = updates
  /\ pm_scope = tokens
  /\ pm_ret = NoResult

add_token_to_monitor ==
  /\ \E t \in pm_scope :
       /\ IF \E i \in 1..Len(monitored_tokens) : monitored_tokens[i] = t
          THEN UNCHANGED <<monitored_tokens, price_history, pm_obtained>>
          ELSE /\ monitored_tokens' = Append(monitored_tokens, t)
               /\ price_history' = DictSet(price_history, t, <<>>)
               /\ pm_obtained' = [pm_obtained EXCEPT ![t] = <<>>]
       /\ pm_ret' = [fn |-> "add_token_to_monitor", token_address |-> t]
  /\ UNCHANGED <<nonUtilVars, cfgVars, target_pubkey, sc_ret,
                 current_prices, pm_tasks, pm_seq,
                 pm_limit, pm_scope>>

\* remove_token_from_monitor(t): the entries of t are deleted only when t
\* is in monitored_tokens
remove_token_from_monitor ==
  /\ \E t \in pm_scope :
       /\ IF \E i \in 1..Len(monitored_tokens) : monitored_tokens[i] = t
          THEN /\ monitored_tokens' =
                    SelectSeq(monitored_tokens, LAMBDA x : x # t)
               /\ price_history' =
                    [x \in DOMAIN price_history \ {t} |-> price_history[x]]
               /\ current_prices' =
                    [x \in DOMAIN current_prices \ {t} |->
                       current_prices[x]]
               /\ pm_obtained' = [pm_obtained EXCEPT ![t] = <<>>]
          ELSE UNCHANGED <<monitored_tokens, price_history, current_prices,
                           pm_obtained>>
       /\ pm_ret' = [fn |-> "remove_token_from_monitor", token_address |-> t]
  /\ UNCHANGED <<nonUtilVars, cfgVars, target_pubkey, sc_ret,
                 pm_tasks, pm_seq, pm_limit, pm_scope>>

\* one round of start_monitoring: a task per monitored token, run with
\* asyncio.gather; the next round begins when all of them have returned
start_monitoring ==
  /\ \A k \in 1..Len(pm_tasks) : pm_tasks[k].pc = "done"
  /\ monitored_tokens # <<>>
  /\ pm_tasks' = [k \in 1..Len(monitored_tokens) |->
                    [token |-> monitored_tokens[k], pc |-> "dexscreener",
                     queried |-> <<>>, result |-> NoResult]]
  /\ UNCHANGED <<nonUtilVars, cfgVars, target_pubkey, sc_ret,
                 monitored_tokens, price_history,
                 current_prices, pm_seq, pm_obtained, pm_limit, pm_scope>>
  /\ pm_ret' = NoResult

\* a call of update_token_price(token) outside start_monitoring
PM_Call ==
  /\ \A k \in 1..Len(pm_tasks) : pm_tasks[k].pc = "done"
  /\ \E t \in pm_scope :
       pm_tasks' = <<[token |-> t, pc |-> "dexscreener", queried |-> <<>>,
                      result |-> NoResult]>>
  /\ UNCHANGED <<nonUtilVars, cfgVars, target_pubkey, sc_ret,
                 monitored_tokens, price_history,
                 current_prices, pm_seq, pm_obtained, pm_limit, pm_scope>>
  /\ pm_ret' = NoResult

\* a step of one update_token_price task: the source it awaits answers with
\* a PriceData or with None (also from the source's except clause).  None of
\* DexScreener leads to Jupiter, None of Jupiter to the return of None.  A
\* PriceData is appended to the history of the token (created if absent),
\* the history is cut to its last 1000 entries, the current price is set and
\* the PriceData is returned, without another task running in between.
update_token_price ==
  /\ \E k \in 1..Len(pm_tasks) : \E delivered \in BOOLEAN :
       LET task == pm_tasks[k]
           token == task.token
           source == PriceSources[IF task.pc = "dexscreener" THEN 1 ELSE 2]
           price_data == [price |-> pm_seq + 1]
           history == IF token \in DOMAIN price_history
                      THEN price_history[token] ELSE <<>>
       IN  /\ task.pc \in {"dexscreener", "jupiter"}
           /\ delivered => pm_seq < pm_limit
           /\ pm_tasks' =
                [pm_tasks EXCEPT ![k] =
                   [token |-> token,
                    pc |-> IF delivered \/ task.pc = "jupiter" THEN "done"
                           ELSE "jupiter",
                    queried |-> Append(task.queried, source),
                    result |-> IF delivered THEN price_data
                               ELSE IF task.pc = "jupiter" THEN NoneValue
                                    ELSE NoResult]]
           /\ IF delivered
              THEN /\ pm_seq' = pm_seq + 1
                   /\ price_history' =
                        DictSet(price_history, token,
                                TrimHistory(Append(history, price_data)))
                   /\ current_prices' =
                        DictSet(current_prices, token, price_data)
                   /\ pm_obtained' =
                        [pm_obtained EXCEPT ![token] = Append(@, price_data)]
              ELSE UNCHANGED <<pm_seq, price_history, current_prices,
                               pm_obtained>>
  /\ pm_ret' = NoResult
  /\ UNCHANGED <<nonUtilVars, cfgVars, target_pubkey, sc_ret,
                 monitored_tokens, pm_limit, pm_scope>>

\* ------------------------------------------------------------------------
\* src/utils/safety_checks.py: SafetyChecker
\* ------------------------------------------------------------------------
\* is_safe_transfer(from_pubkey, to_pubkey, amount) of a checker with the
\* given target: the tests in the order of the code
IsSafeTransferBad(target, from_pubkey, to_pubkey, amount) ==
  IF to_pubkey = target THEN TRUE
  ELSE IF from_pubkey = target THEN FALSE
  ELSE IF amount <= 0 THEN FALSE
  ELSE from_pubkey # to_pubkey

IsSafeTransfer(target, from_pubkey, to_pubkey, amount) ==
  IF from_pubkey = target THEN FALSE
  ELSE IF to_pubkey = target THEN TRUE
  ELSE IF amount <= 0 THEN FALSE
  ELSE from_pubkey # to_pubkey

is_safe_transfer ==
  /\ \E from_pubkey \in {1, 57, 58} : \E to_pubkey \in {1, 57, 58} :
     \E amount \in {-1, 0, 1, 5} :
       sc_ret' = [fn |-> "is_safe_transfer", from_pubkey |-> from_pubkey,
                  to_pubkey |-> to_pubkey, amount |-> amount,
                  value |-> IsSafeTransfer(target_pubkey, from_pubkey,
                                           to_pubkey, amount)]
  /\ UNCHANGED <<nonUtilVars, cfgVars, pmVars, target_pubkey>>

\* the other methods of the checker: validate_exploit_params (both
\* parameters present, of the right types, amount positive),
\* check_account_balance (False below min_balance and from the except
\* clause) and validate_transaction_safety (False for no instructions)
SC_OtherCall ==
  /\ \/ \E has_target \in BOOLEAN : \E amount \in {NoneValue, Text("1")}
                                        \cup {IntValue(n) : n \in {-1, 0, 5}} :
          sc_ret' = [fn |-> "validate_exploit_params",
                     has_target |-> has_target, amount_param |-> amount,
                     value |-> /\ has_target
                               /\ amount.kind = "int"
                               /\ amount.v > 0]
     \/ \E out \in GetBalanceOutcomes : \E min_balance \in {0, 10000000} :
          sc_ret' = [fn |-> "check_account_balance", response |-> out,
                     min_balance |-> min_balance,
                     value |-> /\ out.kind = "value"
                               /\ out.value >= min_balance]
     \/ \E instructions \in 0..2 :
          sc_ret' = [fn |-> "validate_transaction_safety",
                     instructions |-> instructions,
                     value |-> instructions > 0]
  /\ UNCHANGED <<nonUtilVars, cfgVars, pmVars, target_pubkey>>

\* ------------------------------------------------------------------------
\* run_mainnet_tests.py: main, run_exploit_tests, run_token_tests.  The
\* deployer of run_token_tests is the CustomTokenDeployer above; its
\* TokenConfig (decimals 9, initial_supply 10000000, burn_enabled) is scaled
\* to decimals 2 and initial_supply 3000, which keeps every amount of the
\* run inside TLC's integers and the order of the amounts as it is.
\* ------------------------------------------------------------------------
required_vars == {"SOLANA_NETWORK", "SOLANA_RPC_URL", "SOLANA_PRIVKEY"}

\* response = input(...).strip().lower(); response == 'y'
ConfirmedBad(typed) == TRUE

Confirmed(typed) ==
  LET RECURSIVE Strip(_)
      Strip(t) == IF t # <<>> /\ Head(t) = " " THEN Strip(Tail(t))
                  ELSE IF t # <<>> /\ Last(t) = " "
                       THEN Strip(SubSeq(t, 1, Len(t) - 1))
                       ELSE t
      Lower(t) == [i \in 1..Len(t) |->
                     IF t[i] = "Y" THEN "y" ELSE IF t[i] = "N" THEN "n"
                     ELSE t[i]]
  IN  Lower(Strip(typed)) = <<"y">>

\* the state when main is called, with the environment env
MainnetStarted(env) ==
  /\ mn_env = env
  /\ mn_pc = "main"
  /\ mn_input = NoResult
  /\ mn_suites = <<>>
  /\ success_count = 0

\* main up to the first suite: the test of the environment and, on mainnet,
\* the confirmation prompt (input() can raise EOFError, which main does not
\* catch); then success_count = 0
main ==
  /\ mn_pc = "main"
  /\ LET missing_vars == {v \in required_vars : mn_env[v] \in {EnvNone, ""}}
     IN  IF missing_vars # {}
         THEN mn_pc' = "returned" /\ UNCHANGED mn_input
         ELSE IF mn_env["SOLANA_NETWORK"] = "mainnet"
              THEN \E typed \in {Raise} \cup
                                {Text(t) : t \in TextsUpTo({"y", "Y", "n", " "},
                                                           MaxAnswerLen)} :
                     /\ mn_input' = typed
                     /\ mn_pc' = IF typed = Raise THEN "raised"
                                 ELSE IF Confirmed(typed.text)
                                      THEN "run_exploit_tests"
                                      ELSE "returned"
              ELSE mn_pc' = "run_exploit_tests" /\ UNCHANGED mn_input
  /\ success_count' = 0
  /\ UNCHANGED <<nonMainnetVars, tokenVars, mn_env, mn_suites>>

\* if await run_exploit_tests(): success_count += 1.  The suite returns
\* True, or False from its test of the private key or its except clause.
run_exploit_tests ==
  /\ mn_pc = "run_exploit_tests"
  /\ \E returned \in BOOLEAN :
       /\ mn_suites' = Append(mn_suites, [suite |-> "run_exploit_tests",
                                          returned |-> returned,
                                          results |-> NoResult])
       /\ success_count' = success_count + (IF returned THEN 1 ELSE 0)
  /\ mn_pc' = "run_token_tests"
  /\ UNCHANGED <<nonMainnetVars, tokenVars, mn_env, mn_input>>

\* if await run_token_tests(): success_count += 1.  run_token_tests up to
\* the call of deployer.run_comprehensive_token_tests (the constructor of
\* the deployer can raise), and from the return of that call on:
\* save_token_report(results) and deployer.close(), either of which can
\* raise, then return True; the except clause returns False.
run_token_tests ==
  /\ \/ /\ mn_pc = "run_token_tests"
        /\ \E raised \in BOOLEAN :
             IF raised
             THEN /\ mn_suites' = Append(mn_suites,
                                         [suite |-> "run_token_tests",
                                          returned |-> FALSE,
                                          results |-> NoResult])
                  /\ mn_pc' = "finished"
             ELSE /\ mn_pc' = "run_comprehensive_token_tests"
                  /\ UNCHANGED mn_suites
        /\ UNCHANGED success_count
     \/ /\ mn_pc = "run_comprehensive_token_tests"
        /\ run_pc = "done"
        /\ \E raised \in BOOLEAN :
             /\ mn_suites' = Append(mn_suites,
                                    [suite |-> "run_token_tests",
                                     returned |-> ~raised,
                                     results |-> run_result])
             /\ success_count' = success_count + (IF raised THEN 0 ELSE 1)
        /\ mn_pc' = "finished"
  /\ UNCHANGED <<nonMainnetVars, tokenVars, mn_env, mn_input>>

\* ------------------------------------------------------------------------
\* src/token_management/token_controller.py: TokenController.  Account data
\* is a sequence of bytes, a key is a sequence of 32 bytes, and str(key) is
\* kept as the base58 text of these bytes without computing its characters.
\* Floats are integers; target_multiplier is 5.0 or NaN.
\* ------------------------------------------------------------------------
\* the data of an SPL Token mint account: COption tag (u32, little endian)
\* and key of the mint authority, supply (u64, little endian), decimals,
\* is_initialized (flag), COption tag and key of the freeze authority.  A
\* key is given by its first byte.
MintData(mint_tag, mint_key, supply, decimals, flag, freeze_tag, freeze_key) ==
  LET KeyBytes(first) == <<first>> \o [i \in 1..31 |-> 2]
  IN  <<mint_tag, 0, 0, 0>> \o KeyBytes(mint_key)
        \o <<supply % 256, (supply \div 256) % 256, 0, 0, 0, 0, 0, 0>>
        \o <<decimals, flag>>
        \o <<freeze_tag, 0, 0, 0>> \o KeyBytes(freeze_key)

\* what initialize_token_control makes of token_data of at least 82 bytes:
\* the TokenInfo, or the exception of PublicKey(...) for a slice that is not
\* 32 bytes long.  token_data[a:b] holds the bytes a+1..b of the sequence.
TokenInfoOf(mint_address, token_data) ==
  LET Slice(d, a, b) ==
        SubSeq(d, a + 1, IF b < Len(d) THEN b ELSE Len(d))
      RECURSIVE FromBytesLittle(_)
      FromBytesLittle(d) ==
        IF d = <<>> THEN 0 ELSE Head(d) + 256 * FromBytesLittle(Tail(d))
      PublicKeyRaises(d) == Len(d) # 32
      StrPublicKey(d) == [kind |-> "base58", bytes |-> d]
      mint_authority_option == Slice(token_data, 4, 36)
      supply == FromBytesLittle(Slice(token_data, 36, 44))
      decimals == token_data[44 + 1]
      is_initialized == token_data[45 + 1] = 1
      freeze_authority_option == Slice(token_data, 46, 78)
      mint_some == mint_authority_option[0 + 1] = 1
      freeze_some == freeze_authority_option[0 + 1] = 1
  IN  IF \/ mint_some /\ PublicKeyRaises(Slice(mint_authority_option, 1, 33))
         \/ freeze_some
              /\ PublicKeyRaises(Slice(freeze_authority_option, 1, 33))
      THEN Raise
      ELSE [kind |-> "TokenInfo",
            mint_address |-> mint_address,
            decimals |-> decimals,
            supply |-> supply,
            freeze_authority |->
              IF freeze_some
              THEN StrPublicKey(Slice(freeze_authority_option, 1, 33))
              ELSE NoneValue,
            mint_authority |->
              IF mint_some
              THEN StrPublicKey(Slice(mint_authority_option, 1, 33))
              ELSE NoneValue,
            is_initialized |-> is_initialized]

\* the state after TokenController(rpc_url, owner_keypair)
ControllerStarted ==
  /\ controlled_tokens = [x \in {} |-> NoneValue]
  /\ liquidity_pools = [x \in {} |-> NoneValue]
  /\ manipulation_history = <<>>
  /\ ctl_calls = 0
  /\ ctl_ret = NoResult

\* initialize_token_control(mint_address): PublicKey(mint_address) raises
\* or not; get_account_info raises, or gives no account, or an account with
\* data.  Every exception ends in the except clause, which returns False.
initialize_token_control ==
  /\ \E mint_address \in {"M1", "M2"} :
     \E mint_info \in
         {Raise, NoneValue}
           \cup {[kind |-> "account", data |-> d] :
                   d \in {<<>>, SubSeq(MintData(0, 7, 0, 9, 1, 0, 7), 1, 81)}
                     \cup {MintData(mt, mk, su, de, ini, ft, 7) :
                             mt \in {0, 1}, mk \in {1, 7}, su \in {0, 258},
                             de \in {0, 9}, ini \in {0, 1}, ft \in {0, 1}}} :
       LET token_info ==
             IF mint_info.kind = "account" /\ Len(mint_info.data) >= 82
             THEN TokenInfoOf(mint_address, mint_info.data)
             ELSE Raise
           stored == token_info # Raise
       IN  /\ controlled_tokens' =
                IF stored
                THEN DictSet(controlled_tokens, mint_address, token_info)
                ELSE controlled_tokens
           /\ ctl_ret' = [fn |-> "initialize_token_control",
                          mint_address |-> mint_address,
                          mint_info |-> mint_info, value |-> stored]
  /\ UNCHANGED <<nonControllerVars, liquidity_pools, manipulation_history,
                 ctl_calls>>

\* create_fake_liquidity_pool(token_mint): the address of the pool is a new
\* key; _get_token_balance gives a balance, or 0.0 from its except clause
create_fake_liquidity_pool ==
  /\ "P1" \notin DOMAIN liquidity_pools
  /\ \E real_reserve_a \in {0, 1000} : \E real_reserve_b \in {0, 1000} :
       liquidity_pools' =
         DictSet(liquidity_pools, "P1",
                 [reserve_a |-> IF real_reserve_a > 0
                                THEN real_reserve_a * 10 ELSE 1000000,
                  reserve_b |-> IF real_reserve_b > 0
                                THEN real_reserve_b * 10 ELSE 100,
                  volume_24h |-> 0, fake_volume |-> 0])
  /\ ctl_ret' = [fn |-> "create_fake_liquidity_pool", value |-> "P1"]
  /\ UNCHANGED <<nonControllerVars, controlled_tokens, manipulation_history,
                 ctl_calls>>

\* manipulate_liquidity_display(pool_address, manipulation_type,
\* target_multiplier): the return for an unknown pool, the four branches on
\* the type with the append to manipulation_history behind them, and the
\* return of the except clause (int(target_multiplier) raises for NaN)
manipulate_liquidity_display ==
  /\ ctl_calls < MaxManipulations
  /\ \E pool_address \in {"P1", "P2"} :
     \E call \in [manipulation_type :
                    {"LIQUIDITY_SPOOFING", "FAKE_VOLUME", "WASH_TRADING",
                     "PRICE_MANIPULATION"},
                  target_multiplier : {IntValue(5)}]
                   \cup {[manipulation_type |-> "WASH_TRADING",
                          target_multiplier |-> [kind |-> "nan"]]} :
       LET type == call.manipulation_type
           found == pool_address \in DOMAIN liquidity_pools
           pool == liquidity_pools[pool_address]
           raised == found /\ type = "WASH_TRADING"
                       /\ call.target_multiplier.kind = "nan"
           base_volume == IF pool.volume_24h > 10000 THEN pool.volume_24h
                          ELSE 10000
           fake_volume == IF type = "FAKE_VOLUME"
                          THEN base_volume * call.target_multiplier.v
                          ELSE IF type = "WASH_TRADING"
                               THEN call.target_multiplier.v * 1000 ELSE 0
           fake_liquidity ==
             IF type = "LIQUIDITY_SPOOFING"
             THEN (pool.reserve_a + pool.reserve_b)
                    * (call.target_multiplier.v - 1)
             ELSE 0
           result ==
             IF ~found
             THEN [success |-> FALSE, manipulation_type |-> type,
                   fake_volume_added |-> 0, fake_liquidity_added |-> 0,
                   error_message |-> Text("pool not found")]
             ELSE IF raised
             THEN [success |-> FALSE, manipulation_type |-> type,
                   fake_volume_added |-> 0, fake_liquidity_added |-> 0,
                   error_message |-> Text("str(e)")]
             ELSE IF type = "PRICE_MANIPULATION"
             THEN [success |-> FALSE, manipulation_type |-> type,
                   fake_volume_added |-> 0, fake_liquidity_added |-> 0,
                   error_message |-> Text("unsupported manipulation type")]
             ELSE [success |-> TRUE, manipulation_type |-> type,
                   fake_volume_added |-> fake_volume,
                   fake_liquidity_added |-> fake_liquidity,
                   error_message |-> NoneValue]
       IN  /\ liquidity_pools' =
                IF ~found \/ raised \/ type = "PRICE_MANIPULATION"
                THEN liquidity_pools
                ELSE DictSet(liquidity_pools, pool_address,
                       IF type = "LIQUIDITY_SPOOFING"
                       THEN [pool EXCEPT
                               !.reserve_a = @ * call.target_multiplier.v,
                               !.reserve_b = @ * call.target_multiplier.v]
                       ELSE IF type = "FAKE_VOLUME"
                            THEN [pool EXCEPT
                                    !.fake_volume = @ + fake_volume,
                                    !.volume_24h = @ + fake_volume]
                            ELSE [pool EXCEPT
                                    !.fake_volume = @ + fake_volume])
           /\ manipulation_history' =
                IF ~found \/ raised THEN manipulation_history
                ELSE Append(manipulation_history, result)
           /\ ctl_ret' = [fn |-> "manipulate_liquidity_display",
                          pool_address |-> pool_address, value |-> result]
  /\ ctl_calls' = ctl_calls + 1
  /\ UNCHANGED <<nonControllerVars, controlled_tokens>>

\* execute_pump_and_dump(token_mint, pump_amount, dump_delay): the result
\* over the transactions of the two phases is appended and returned; the
\* except clause returns a result without appending it
execute_pump_and_dump ==
  /\ ctl_calls < MaxManipulations
  /\ \E raised \in BOOLEAN : \E transactions \in {0, 2} :
       LET result ==
             [success |-> ~raised, manipulation_type |-> "PUMP_AND_DUMP",
              fake_volume_added |-> IF raised THEN 0 ELSE transactions * 500,
              fake_liquidity_added |-> 0,
              error_message |-> IF raised THEN Text("str(e)") ELSE NoneValue]
       IN  /\ manipulation_history' =
                IF raised THEN manipulation_history
                ELSE Append(manipulation_history, result)
           /\ ctl_ret' = [fn |-> "execute_pump_and_dump", value |-> result]
  /\ ctl_calls' = ctl_calls + 1
  /\ UNCHANGED <<nonControllerVars, controlled_tokens, liquidity_pools>>

\* get_statistics(); success_rate is kept as the pair of the numerator
\* successful_manipulations * 100 and the denominator, or as 0
get_statistics ==
  /\ LET total_manipulations == Len(manipulation_history)
         successful_manipulations ==
           Cardinality({i \in 1..Len(manipulation_history) :
                          manipulation_history[i].success})
         RECURSIVE Sum(_, _)
         Sum(h, field) ==
           IF h = <<>> THEN 0 ELSE Head(h)[field] + Sum(Tail(h), field)
     IN  ctl_ret' =
           [fn |-> "get_statistics",
            value |->
              [controlled_tokens |-> Cardinality(DOMAIN controlled_tokens),
               liquidity_pools |-> Cardinality(DOMAIN liquidity_pools),
               total_manipulations |-> total_manipulations,
               successful_manipulations |-> successful_manipulations,
               success_rate |->
                 IF total_manipulations > 0
                 THEN <<successful_manipulations * 100, total_manipulations>>
                 ELSE <<0, 1>>,
               total_fake_volume |->
                 Sum(manipulation_history, "fake_volume_added"),
               total_fake_liquidity |->
                 Sum(manipulation_history, "fake_liquidity_added")]]
  /\ UNCHANGED <<nonControllerVars, controlled_tokens, liquidity_pools,
                 manipulation_history, ctl_calls>>

\* ------------------------------------------------------------------------
\* Specifications
\* ------------------------------------------------------------------------
\* the initial states of the specification of component c: the inputs of c
\* range over their sets, the other components start from a fixed
\* configuration and never move
InitOf(c) ==
  /\ InitProbe
  /\ IF c = "fallback" THEN InitFallback ELSE RestFallback
  /\ IF c = "mint"
     THEN \E payer \in {1, 57} :
          \E target \in {NoneValue, Text(<<"2">>), Text(<<"0", "O">>)} :
            MintStarted(payer, target)
     ELSE MintStarted(1, NoneValue)
  /\ IF c = "deployer"
     THEN \E decimals \in {0, 2} : \E initial_supply \in {-1, 0, 1, 3000} :
          \E burn_enabled \in BOOLEAN :
            DeployerStarted(decimals, initial_supply, burn_enabled)
     ELSE IF c = "mainnet" THEN DeployerStarted(2, 3000, TRUE)
          ELSE DeployerStarted(0, 1, TRUE)
  /\ ReportStarted
  /\ IF c = "config"
     THEN \E file \in {"missing", "invalid", "A", "$VAR"} : \E env \in {EnvNone, "B"} :
            ConfigStarted(file, env)
     ELSE ConfigStarted("missing", EnvNone)
  /\ IF c = "monitor" THEN MonitorStarted({"T1", "T2"}, MaxUpdates)
     ELSE IF c = "history"
          THEN MonitorStarted({"T1"}, HistoryLimit + MaxOverflow)
          ELSE MonitorStarted({"T1"}, 0)
  /\ target_pubkey \in IF c = "safety" THEN {1, 57} ELSE {1}
  /\ sc_ret = NoResult
  /\ IF c = "mainnet"
     THEN \E network \in {EnvNone, "", "mainnet", "devnet"} :
          \E url \in {EnvNone, "url"} : \E key \in {EnvNone, "key"} :
            MainnetStarted([v \in required_vars |->
                              IF v = "SOLANA_NETWORK" THEN network
                              ELSE IF v = "SOLANA_RPC_URL" THEN url ELSE key])
     ELSE MainnetStarted([v \in required_vars |-> "devnet"])
  /\ ControllerStarted

NextProbe ==
  \/ CAE_Call
  \/ CAE_Parse
  \/ CAE_Connect
  \/ CAE_GetAccountInfo
  \/ TAE_Call
  \/ TAE_Construct
  \/ TAE_Parse
  \/ TAE_ScanTarget
  \/ TAE_PrepareExploit
  \/ TAE_ExecuteExploit
  \/ test_all_exploits
  \/ test_exploit
  \/ CA_Return

\* the account probes
SpecProbe == InitOf("probe") /\ [][NextProbe]_vars

NextFallback ==
  \/ FB_Call
  \/ FB_Primary
  \/ FB_Fallback
  \/ FB_Return

\* the fallback-endpoint loop of create_token_final_v2
SpecFallback == InitOf("fallback") /\ [][NextFallback]_vars

NextMint ==
  \/ CTT_Call
  \/ CTT_GetBalance
  \/ CTT_Rpc
  \/ CTT_Save
  \/ CST_Call
  \/ CST_GetBalance
  \/ CST_CreateMint
  \/ CST_Rpc
  \/ CST_Save
  \/ CSF_Call
  \/ create_test_spl_token
  \/ CB_Call
  \/ CB_Getenv
  \/ CB_GetBalance
  \/ CB_Rpc
  \/ CVT_Call
  \/ CVT_GetBalance
  \/ CVT_Rpc
  \/ CVT_Save
  \/ TC_Call
  \/ TC_Build
  \/ TC_Blockhash
  \/ TC_Send
  \/ V2_Call
  \/ V2_GetBalance
  \/ V2_CreateMint
  \/ V2_CreateAccount
  \/ V2_MintTo
  \/ M_Return

\* the mint-creation and balance procedures
SpecMint == InitOf("mint") /\ [][NextMint]_vars

NextDeployer ==
  \/ D_Call
  \/ create_token_mint
  \/ create_token_account
  \/ mint_tokens
  \/ test_token_transfer
  \/ test_token_burn
  \/ get_token_info
  \/ mint_additional_tokens
  \/ D_Return
  \/ check_balance
  \/ run_comprehensive_token_tests

\* the token operations and the test run of CustomTokenDeployer
SpecDeployer == InitOf("deployer") /\ [][NextDeployer]_vars

NextReport ==
  \/ save_token_report
  \/ generate_report
  \/ load_report

\* the report writers
SpecReport == InitOf("report") /\ [][NextReport]_vars

NextConfig ==
  \/ load_config
  \/ get_config
  \/ reload_config
  \/ save_config
  \/ ConfigEnvironment

\* a ConfigManager
SpecConfig == InitOf("config") /\ [][NextConfig]_vars

NextMonitor ==
  \/ add_token_to_monitor
  \/ remove_token_from_monitor
  \/ start_monitoring
  \/ PM_Call
  \/ update_token_price

\* a PriceMonitor with its callers and its monitoring loop
SpecMonitor == InitOf("monitor") /\ [][NextMonitor]_vars

NextHistory ==
  \/ PM_Call
  \/ update_token_price

\* a long sequence of update_token_price calls for one token
SpecHistory == InitOf("history") /\ [][NextHistory]_vars

NextSafety ==
  \/ is_safe_transfer
  \/ SC_OtherCall

\* a SafetyChecker after its construction for a valid target address
SpecSafety == InitOf("safety") /\ [][NextSafety]_vars

NextMainnet ==
  \/ main
  \/ run_exploit_tests
  \/ run_token_tests
  \/ mn_pc = "run_comprehensive_token_tests" /\ run_comprehensive_token_tests
  \/ check_balance
  \/ create_token_mint
  \/ create_token_account
  \/ mint_tokens
  \/ test_token_transfer
  \/ test_token_burn
  \/ get_token_info

\* one run of run_mainnet_tests.main
SpecMainnet == InitOf("mainnet") /\ [][NextMainnet]_vars

NextController ==
  \/ initialize_token_control
  \/ get_statistics

\* a TokenController that is asked to take control of tokens
SpecController == InitOf("controller") /\ [][NextController]_vars

NextManipulation ==
  \/ create_fake_liquidity_pool
  \/ manipulate_liquidity_display
  \/ execute_pump_and_dump
  \/ get_statistics

\* a TokenController that is asked for manipulations
SpecManipulation == InitOf("manipulation") /\ [][NextManipulation]_vars

\* ------------------------------------------------------------------------
\* Claims
\* ------------------------------------------------------------------------
\* the call returned a dict (no exception left it)
ReturnedDict(r) == "kind" \notin DOMAIN r

ParseErrorTexts == {"Invalid Base58 string", "String is the wrong size"}

C3_ExistsReflectsResponse ==
  (ca_fn = "check_account_existence" /\ ca_pc = "done")
    => /\ ReturnedDict(ca_result)
       /\ "exists" \in DOMAIN ca_result
       /\ ca_result.exists
            <=> (response.kind = "response" /\ response.value # NoneValue)

\* the node answered value=None and the function returned exists=False
C3_Witness ==
  /\ ca_fn = "check_account_existence"
  /\ ca_pc = "done"
  /\ response.kind = "response"
  /\ response.value = NoneValue
  /\ ca_result.exists = FALSE

\* the endpoints in the order the configuration gives them: the primary
\* one, the fallback variables that are set, the three built-in ones
ConfiguredEndpoints ==
  <<SOLANA_RPC_URL>>
    \o SelectSeq(fb_env, LAMBDA u : u # EnvNone /\ u # "")
    \o BuiltinEndpoints

AllInvocationsRaised ==
  /\ fb_invoked # <<>>
  /\ \A i \in 1..Len(fb_invoked) : fb_invoked[i].outcome = Raise

\* C7: when the operation raises on the primary endpoint and on every
\* fallback endpoint, the call ends after exactly 1 + len(FALLBACK_ENDPOINTS)
\* invocations and returns None without raising; that None is one of the
\* values an operation can return itself.
C7_ExhaustionReturnsNone ==
  /\ Len(fb_invoked) <= 1 + Len(FALLBACK_ENDPOINTS)
  /\ (fb_pc = "done" /\ AllInvocationsRaised)
       => Len(fb_invoked) = 1 + Len(FALLBACK_ENDPOINTS)
  /\ (AllInvocationsRaised /\ Len(fb_invoked) = 1 + Len(FALLBACK_ENDPOINTS))
       => /\ fb_pc \in {"done", "idle"}
          /\ fb_result = [kind |-> "value", value |-> "None"]
          /\ fb_result \in OperationOutcomes \ {Raise}

\* every endpoint of a list with a configured fallback raised
C7_Witness ==
  /\ fb_pc = "done"
  /\ AllInvocationsRaised
  /\ Len(FALLBACK_ENDPOINTS) > Len(BuiltinEndpoints)
  /\ Len(fb_invoked) = 1 + Len(FALLBACK_ENDPOINTS)
  /\ fb_result = [kind |-> "value", value |-> "None"]

\* the three mint-creation procedures C4 names
MintCreationProcedures ==
  {"create_test_token", "create_vulnerable_token", "TokenCreator.create_token"}

\* an exception left the call
Propagated(r) == "kind" \in DOMAIN r /\ r.kind = "raise"

C5_ClientClosedOnEveryExit ==
  (/\ m_fn \in {"create_test_token", "create_simple_token", "check_balance"}
   /\ m_pc = "done"
   /\ m_client # "none")
    => m_client = "closed"

\* C8: on a successful return of create_test_token and of create_token
\* (create_token_final_v2) the reported mint_address is the text of the key of
\* the keypair generated during the call, and it differs from the payer
\* address reported as owner / mint_authority in the same result.
C8_MintAddressIsGeneratedKey ==
  /\ (/\ m_fn = "create_test_token"
      /\ m_pc = "done"
      /\ ReturnedDict(m_result)
      /\ m_result.success)
       => /\ mint_keypair \in PubkeyValues
          /\ m_result.mint_address = PubkeyToString(mint_keypair)
          /\ m_result.owner = PubkeyToString(payer_key)
          /\ m_result.mint_address # m_result.owner
  /\ (/\ m_fn = "create_token"
      /\ m_pc = "done"
      /\ m_result # NoneValue)
       => /\ mint_keypair \in PubkeyValues
          /\ m_result.mint_address = PubkeyToString(mint_keypair)
          /\ m_result.mint_authority = PubkeyToString(payer_key)
          /\ m_result.mint_address # m_result.mint_authority
          /\ m_result.mint_address # m_result.owner_address

C8_Witness ==
  /\ m_fn = "create_test_token"
  /\ m_pc = "done"
  /\ ReturnedDict(m_result)
  /\ m_result.success
  /\ Last(m_rpc) = "confirm_transaction"

\* C1 as stated: for a requested amount that is zero or negative,
\* mint_tokens, test_token_transfer and mint_additional_tokens issue no RPC
\* call and return a failure result (False).
C1_NonPositiveAmountRejected ==
  (/\ t_fn \in {"mint_tokens", "test_token_transfer", "mint_additional_tokens"}
   /\ t_amount <= 0)
    => /\ \A i \in 1..Len(t_log) : t_log[i].fn # t_fn
       /\ t_pc = "return"
            => IF t_fn = "mint_additional_tokens" THEN ~t_ret.value
               ELSE ~t_ret.success

\* the RPC call `call` of method fn returned (did not raise) before the
\* i-th entry of the log
ReturnedBefore(i, fn, call) ==
  \E j \in 1..(i - 1) : t_log[j] = [fn |-> fn, call |-> call, raised |-> FALSE]

\* C10: order of the steps of run_comprehensive_token_tests.  The
\* account-creation transaction is sent only after the mint-creation
\* transaction was sent and its confirm_transaction returned; the mint_to
\* transaction is sent only after the confirm_transaction of the account
\* creation returned; token_address and token_account change only in the
\* step in which the confirm_transaction of their method returned.
C10_RunOrder ==
  /\ [](run_pc # "idle" =>
          \A i \in 1..Len(t_log) :
            /\ t_log[i].fn = "create_token_account"
                 /\ t_log[i].call = "send_transaction"
                 => \E k \in 1..(i - 1) :
                      /\ t_log[k] = [fn |-> "create_token_mint",
                                     call |-> "confirm_transaction",
                                     raised |-> FALSE]
                      /\ ReturnedBefore(k, "create_token_mint",
                                        "send_transaction")
            /\ t_log[i].fn = "mint_tokens" /\ t_log[i].call = "send_transaction"
                 => ReturnedBefore(i, "create_token_account",
                                   "confirm_transaction"))
  /\ [][/\ token_address' # token_address
             => /\ Len(t_log') = Len(t_log) + 2
                /\ t_log'[Len(t_log) + 1] =
                     [fn |-> "create_token_mint",
                      call |-> "confirm_transaction", raised |-> FALSE]
        /\ token_account' # token_account
             => /\ Len(t_log') = Len(t_log) + 2
                /\ t_log'[Len(t_log) + 1] =
                     [fn |-> "create_token_account",
                      call |-> "confirm_transaction", raised |-> FALSE]]_vars

C10_Witness ==
  /\ run_pc = "mint_tokens"
  /\ t_pc = "return"
  /\ t_ret.success
  /\ token_address # NoneValue
  /\ token_account # NoneValue

\* a primitive value in the sense of C9: a string, an integer, a boolean,
\* null, or a list or a dict (with string keys) of these
RECURSIVE Primitive(_)
Primitive(v) ==
  CASE v.kind \in {"None", "bool", "int", "str"} -> TRUE
    [] v.kind = "list" -> \A i \in 1..Len(v.items) : Primitive(v.items[i])
    [] v.kind = "dict" ->
         \A i \in 1..Len(v.items) :
           v.items[i].key.kind = "str" /\ Primitive(v.items[i].value)
    [] OTHER -> FALSE

\* C9 as stated: for every results value given to save_token_report or
\* generate_report the text written is valid JSON, and loading it gives
\* back, under the key "results", every primitive value that was passed in.
C9_ReportRoundTrip ==
  r_pc = "loaded" =>
    /\ ValidJson(r_text)
    /\ r_loaded.ok
    /\ Primitive(r_input) => Last(r_loaded.value.items).value = r_input

\* the run ended because create_token_account failed after create_token_mint
\* had succeeded
RunFailedAtAccount ==
  /\ run_pc = "done"
  /\ Len(test_results) = 2
  /\ test_results[1].test_name = "create_token_mint"
  /\ test_results[1].success
  /\ test_results[2].test_name = "create_token_account"
  /\ ~test_results[2].success

\* C11: no rollback on partial failure.  When create_token_account failed
\* after create_token_mint succeeded, the run has returned
\* {"error": "Failed to create token account"}, the last RPC call issued is
\* the call of create_token_account that raised (nothing is submitted after
\* it), token_address is the key of the created mint, and a token_account
\* that was None when the run was called is still None.
C11_NoRollback ==
  /\ [](RunFailedAtAccount =>
          /\ run_result = [error |-> "Failed to create token account"]
          /\ Last(t_log).fn = "create_token_account"
          /\ Last(t_log).raised
          /\ token_address = Key(58))
  /\ []((run_pc = "check_balance" /\ token_account = NoneValue)
          => [](RunFailedAtAccount => token_account = NoneValue))

C11_Witness ==
  /\ RunFailedAtAccount
  /\ Last(t_log) = [fn |-> "create_token_account",
                    call |-> "confirm_transaction", raised |-> TRUE]
  /\ token_address = Key(58)
  /\ token_account = NoneValue

\* the names of the results in test_results, in order
StepNames == [i \in 1..Len(test_results) |-> test_results[i].test_name]

\* the order in which the run invokes the testing methods
StepOrder ==
  <<"create_token_mint", "create_token_account", "mint_tokens",
    "test_token_transfer", "test_token_burn">>

\* C15: in run_comprehensive_token_tests a failed create_token_mint or
\* create_token_account ends the run at once with an error dict and no later
\* step is invoked; a failed mint_tokens or test_token_transfer does not end
\* it: the transfer and (when burn_enabled) the burn are still executed; and
\* test_results lists the executed steps in the order create_token_mint,
\* create_token_account, mint_tokens, test_token_transfer, test_token_burn.
C15_StopOnlyOnCreationFailure ==
  run_pc # "idle" =>
    /\ \A i \in 1..Len(test_results) : StepNames[i] = StepOrder[i]
    /\ \A i \in 1..Len(t_log) :
         t_log[i].fn = "check_balance"
           \/ \E k \in 1..5 :
                /\ t_log[i].fn = StepOrder[k]
                /\ k <= Len(test_results) + 1
                /\ \A j \in 1..2 : (j < k) => test_results[j].success
           \/ /\ t_log[i].fn = "get_token_info"
              /\ Len(test_results) = IF config.burn_enabled THEN 5 ELSE 4
    /\ run_pc = "done" =>
         IF Len(test_results) = 0
         THEN DOMAIN run_result = {"error"}
         ELSE IF \E j \in 1..2 : j <= Len(test_results) /\ ~test_results[j].success
              THEN /\ ~Last(test_results).success
                   /\ Len(test_results) <= 2
                   /\ DOMAIN run_result = {"error"}
              ELSE /\ Len(test_results) = IF config.burn_enabled THEN 5 ELSE 4
                   /\ "error" \notin DOMAIN run_result
                   /\ run_result.test_results = test_results

C15_Witness ==
  /\ run_pc = "done"
  /\ Len(test_results) = 5
  /\ ~test_results[3].success
  /\ ~test_results[4].success
  /\ test_results[5].success

\* C16: when check_balance reported less than 0.01 SOL (also the 0.0 of its
\* except clause), the run returns {"error": "Insufficient SOL balance"}; the
\* only RPC call issued is the get_balance of check_balance (no transaction is
\* submitted), and test_results, token_address and token_account are not
\* changed by the run.
C16_InsufficientBalance ==
  /\ []((run_pc \in {"balance checked", "done"} /\ balance < MinBalanceLamports)
          => /\ Len(t_log) = 1
             /\ t_log[1].fn = "check_balance"
             /\ t_log[1].call = "get_balance"
             /\ run_pc = "done"
                  => run_result = [error |-> "Insufficient SOL balance"])
  /\ [][(run_pc # "idle" /\ balance' < MinBalanceLamports)
          => UNCHANGED <<test_results, token_address, token_account>>]_vars

C16_Witness ==
  /\ run_pc = "done"
  /\ run_result = [error |-> "Insufficient SOL balance"]
  /\ t_log = <<[fn |-> "check_balance", call |-> "get_balance",
                raised |-> TRUE]>>
  /\ balance = 0
  /\ token_address # NoneValue

\* the methods of CustomTokenDeployer that return a TokenTestResult
TestingMethods ==
  {"create_token_mint", "create_token_account", "mint_tokens",
   "test_token_transfer", "test_token_burn"}

\* C17: each of create_token_mint, create_token_account, mint_tokens,
\* test_token_transfer and test_token_burn ends by returning a
\* TokenTestResult, whatever RPC step raised; with success=True it carries a
\* transaction signature and no error_message, with success=False an
\* error_message and no transaction signature.
C17_AlwaysTokenTestResult ==
  (t_fn \in TestingMethods /\ t_pc = "return") =>
    /\ DOMAIN t_ret = {"test_name", "success", "transaction_signature",
                       "error_message", "data"}
    /\ t_ret.test_name = t_fn
    /\ t_ret.success \in BOOLEAN
    /\ t_ret.success
         => t_ret.transaction_signature # NoneValue
              /\ t_ret.error_message = NoneValue
    /\ ~t_ret.success
         => t_ret.error_message # NoneValue
              /\ t_ret.transaction_signature = NoneValue
    /\ (t_log # <<>> /\ Last(t_log).fn = t_fn /\ Last(t_log).raised)
         => ~t_ret.success

C17_Witness ==
  /\ t_fn = "test_token_burn"
  /\ t_pc = "return"
  /\ ~t_ret.success
  /\ t_log # <<>>
  /\ Last(t_log) = [fn |-> "test_token_burn", call |-> "confirm_transaction",
                    raised |-> TRUE]

\* C12: a ConfigManager reads its file at most once between calls of
\* reload_config.  Once a Config is cached (also the default Config of a
\* failed load), load_config and get_config return that Config without
\* opening the file and leave it cached; the cached Config changes only in
\* reload_config and save_config; and the file is opened, once, only by the
\* first load and by reload_config.
C12_LoadedOnce ==
  [][/\ (cm_op' \in {"load_config", "get_config"} /\ _config # NoneValue)
          => /\ cm_reads' = cm_reads
             /\ cm_ret' = _config
             /\ _config' = _config
     /\ (_config # NoneValue /\ _config' # _config)
          => cm_op' \in {"reload_config", "save_config"}
     /\ cm_reads' # cm_reads
          => /\ cm_reads' = cm_reads + 1
             /\ _config = NoneValue \/ cm_op' = "reload_config"]_vars

C12_Witness ==
  /\ cm_op = "get_config"
  /\ cm_reads = 1
  /\ _config = Config("default")
  /\ cm_ret = _config
  /\ config_file = "A"

\* the task returned a PriceData
GotPrice(task) == "price" \in DOMAIN task.result

\* the entry of token t in dict d did not change in the step
SameEntry(d1, d2, t) ==
  /\ t \in DOMAIN d1 <=> t \in DOMAIN d2
  /\ t \in DOMAIN d1 => d1[t] = d2[t]

\* C13: the update_token_price tasks that start_monitoring runs with gather.
\* A step of a task changes no price_history or current_prices entry of a
\* token other than its own, and no appended price is lost: the price a task
\* returned is in the history of its token for as long as that history
\* exists, and the current price of a token is the last price obtained for
\* it.
C13_TasksOwnTheirToken ==
  /\ [](\A k \in 1..Len(pm_tasks) :
          LET t == pm_tasks[k].token
          IN  (/\ GotPrice(pm_tasks[k])
               /\ \E i \in 1..Len(pm_obtained[t]) :
                    pm_obtained[t][i] = pm_tasks[k].result)
                => /\ t \in DOMAIN price_history
                   /\ \E i \in 1..Len(price_history[t]) :
                        price_history[t][i] = pm_tasks[k].result
                   /\ t \in DOMAIN current_prices
                   /\ current_prices[t] = Last(pm_obtained[t]))
  /\ [][\A k \in 1..Len(pm_tasks) :
          (/\ pm_tasks[k].pc # "done"
           /\ Len(pm_tasks') = Len(pm_tasks)
           /\ pm_tasks'[k] # pm_tasks[k])
            => \A t \in pm_scope \ {pm_tasks[k].token} :
                 /\ SameEntry(price_history, price_history', t)
                 /\ SameEntry(current_prices, current_prices', t)]_vars

C13_Witness ==
  /\ Len(pm_tasks) = 2
  /\ pm_tasks[1].token # pm_tasks[2].token
  /\ GotPrice(pm_tasks[1])
  /\ GotPrice(pm_tasks[2])
  /\ pm_tasks[1].result.price > pm_tasks[2].result.price
  /\ pm_tasks[2].queried = <<"DexScreener", "Jupiter">>
  /\ Last(price_history[pm_tasks[1].token]) = pm_tasks[1].result
  /\ Last(price_history[pm_tasks[2].token]) = pm_tasks[2].result

\* C20: after any sequence of update_token_price calls the history of a
\* token holds at most 1000 entries, and they are the most recently obtained
\* prices of the token in the order in which they were obtained.
C20_HistoryBounded ==
  \A t \in DOMAIN price_history :
    LET n == Len(pm_obtained[t])
        kept == IF n > 1000 THEN 1000 ELSE n
    IN  /\ Len(price_history[t]) <= 1000
        /\ price_history[t] = SubSeq(pm_obtained[t], n - kept + 1, n)

C20_Witness ==
  /\ "T1" \in DOMAIN price_history
  /\ Len(price_history["T1"]) = 1000
  /\ Len(pm_obtained["T1"]) = 1002
  /\ price_history["T1"][1] = [price |-> 3]
  /\ Last(price_history["T1"]) = [price |-> 1002]

\* C14 as stated: in try_with_fallback_endpoints, as main calls it for a
\* token, a create_token that failed on an endpoint which is not the last is
\* followed by an attempt on the next endpoint.
C14_CreationFallsBack ==
  (fb_fn = "try_with_fallback_endpoints" /\ fb_pc = "done") =>
    \A i \in 1..Len(fb_invoked) :
      (CreateTokenFailed(fb_invoked[i].outcome) /\ i <= Len(FALLBACK_ENDPOINTS))
        => Len(fb_invoked) > i

\* C18: is_safe_transfer returns False for every transfer whose from_pubkey
\* is the checker's target_pubkey, whatever the destination and the amount,
\* and no call changes target_pubkey after construction.
C18_NeverFromTarget ==
  /\ []((/\ "fn" \in DOMAIN sc_ret
         /\ sc_ret.fn = "is_safe_transfer"
         /\ sc_ret.from_pubkey = target_pubkey) => ~sc_ret.value)
  /\ [][target_pubkey' = target_pubkey]_vars

C18_Witness ==
  /\ "fn" \in DOMAIN sc_ret
  /\ sc_ret.fn = "is_safe_transfer"
  /\ sc_ret.from_pubkey = target_pubkey
  /\ sc_ret.to_pubkey = target_pubkey
  /\ sc_ret.amount = 5
  /\ ~sc_ret.value

\* C19 as stated: is_safe_transfer returns False for every transfer whose
\* amount is zero or negative, whatever the source and the destination.
C19_NonPositiveAmountUnsafe ==
  (/\ "fn" \in DOMAIN sc_ret
   /\ sc_ret.fn = "is_safe_transfer"
   /\ sc_ret.amount <= 0) => ~sc_ret.value

\* the step of update_token_price task k in which it has queried a source
QueriedStep(k) ==
  /\ k <= Len(pm_tasks')
  /\ pm_tasks'[k].token = pm_tasks[k].token
  /\ Len(pm_tasks'[k].queried) = Len(pm_tasks[k].queried) + 1

\* C21: update_token_price queries DexScreener first and Jupiter only after
\* DexScreener gave no price.  When both gave none it returns None and
\* price_history and current_prices are as before; a price that a source
\* gave is appended to the history of the token and is its current price.
C21_DexScreenerThenJupiter ==
  /\ [](\A k \in 1..Len(pm_tasks) :
          /\ pm_tasks[k].queried \in
               {<<>>, <<"DexScreener">>, <<"DexScreener", "Jupiter">>}
          /\ (pm_tasks[k].pc = "done" /\ ~GotPrice(pm_tasks[k]))
               => /\ pm_tasks[k].result = NoneValue
                  /\ pm_tasks[k].queried = <<"DexScreener", "Jupiter">>)
  /\ [][\A k \in 1..Len(pm_tasks) : QueriedStep(k) =>
          LET before == pm_tasks[k]
              after == pm_tasks'[k]
              t == before.token
          IN  /\ Last(after.queried) = "Jupiter"
                   => /\ before.queried = <<"DexScreener">>
                      /\ before.result = NoResult
              /\ ~GotPrice(after)
                   => UNCHANGED <<price_history, current_prices>>
              /\ GotPrice(after)
                   => /\ after.pc = "done"
                      /\ t \in DOMAIN price_history'
                      /\ Last(price_history'[t]) = after.result
                      /\ (t \in DOMAIN price_history
                            /\ Len(price_history[t]) < HistoryLimit)
                           => price_history'[t] =
                                Append(price_history[t], after.result)
                      /\ t \notin DOMAIN price_history
                           => price_history'[t] = <<after.result>>
                      /\ t \in DOMAIN current_prices'
                      /\ current_prices'[t] = after.result]_vars

C21_Witness ==
  /\ Len(pm_tasks) = 2
  /\ pm_tasks[1].pc = "done"
  /\ pm_tasks[1].result = NoneValue
  /\ pm_tasks[1].queried = <<"DexScreener", "Jupiter">>
  /\ pm_tasks[2].pc = "done"
  /\ GotPrice(pm_tasks[2])
  /\ pm_tasks[2].queried = <<"DexScreener", "Jupiter">>
  /\ pm_tasks[2].token \in DOMAIN price_history
  /\ pm_tasks[2].token \in DOMAIN current_prices
  /\ Len(price_history[pm_tasks[2].token]) = 2
  /\ Last(price_history[pm_tasks[2].token]) = pm_tasks[2].result
  /\ current_prices[pm_tasks[2].token] = pm_tasks[2].result

\* C27 as stated: when remove_token_from_monitor(t) has returned, t has no
\* entry in monitored_tokens, price_history or current_prices, whatever
\* calls came before.
C27_RemovedEverywhere ==
  ("fn" \in DOMAIN pm_ret /\ pm_ret.fn = "remove_token_from_monitor") =>
    /\ \A i \in 1..Len(monitored_tokens) :
         monitored_tokens[i] # pm_ret.token_address
    /\ pm_ret.token_address \notin DOMAIN price_history
    /\ pm_ret.token_address \notin DOMAIN current_prices

\* the value create_token is to use for an Optional[int] argument: the
\* passed value, or the default when None was passed
PassedOr(x, default) == IF x = NoneValue THEN default ELSE x.v

\* C26 as stated: create_token uses the decimals and the initial_supply it
\* was passed whenever they are passed, and the defaults only for None: the
\* TokenInfo records these values, and the transaction holds a mint_to
\* instruction exactly when the initial supply so determined is positive.
C26_PassedValuesUsed ==
  (m_fn = "TokenCreator.create_token" /\ m_pc # "build") =>
    /\ (\E i \in 1..Len(m_tx) : m_tx[i] = "mint_to")
         <=> PassedOr(m_args.initial_supply, default_supply) > 0
    /\ (m_pc = "done" /\ m_result.kind = "TokenInfo") =>
         /\ m_result.decimals = PassedOr(m_args.decimals, default_decimals)
         /\ m_result.total_supply =
              PassedOr(m_args.initial_supply, default_supply)

\* the calls of the test of one exploit type among the recorded calls
CallsOf(exploit_type) ==
  SelectSeq(ca_calls, LAMBDA c : c.exploit = exploit_type)

\* C22 as stated: in each exploit test of test_vulnerable_tokens and of
\* CreatedAccountTester the calls come in the order scan_target,
\* prepare_exploit, execute_exploit; prepare_exploit is called only if the
\* scan reported the target vulnerable and execute_exploit only if
\* prepare_exploit returned a true value; an exception in one of them gives
\* a result with success False, and test_all_exploits still returns three
\* entries in the order TokenExploit, ReentrancyExploit, AccountExploit.
C22_ScanPrepareExecute ==
  (ca_fn \in {"test_account_exploit", "test_all_exploits"}) =>
    /\ \A x \in {"TokenExploit", "ReentrancyExploit", "AccountExploit"} :
         LET calls == CallsOf(x)
         IN  /\ \A i \in 1..Len(calls) :
                   calls[i].call =
                     <<"scan_target", "prepare_exploit", "execute_exploit">>[i]
             /\ Len(calls) <= 3
             /\ Len(calls) >= 2 =>
                  /\ calls[1].out.kind = "dict"
                  /\ calls[1].out.vulnerable
             /\ Len(calls) = 3 =>
                  calls[2].out = [kind |-> "value", value |-> TRUE]
    /\ (ca_fn = "test_account_exploit" /\ ca_pc = "done"
          /\ \E i \in 1..Len(ca_calls) : ca_calls[i].out = Raise)
         => ~ca_result.success
    /\ ca_fn = "test_all_exploits" =>
         /\ \A j \in 1..Len(ca_result.exploits) :
              /\ ca_result.exploits[j].exploit_type =
                   <<"TokenExploit", "ReentrancyExploit",
                     "AccountExploit">>[j]
              /\ (\E i \in 1..Len(ca_calls) :
                    /\ ca_calls[i].exploit = ca_result.exploits[j].exploit_type
                    /\ ca_calls[i].out = Raise)
                   => ~ca_result.exploits[j].success
         /\ ca_pc = "done" => Len(ca_result.exploits) = 3

\* the part of C22 about test_vulnerable_tokens alone
C22_VulnerableTokensTests ==
  ca_fn = "test_all_exploits" => C22_ScanPrepareExecute

\* one of the three required variables is not set or is empty
EnvironmentMissing ==
  \E v \in {"SOLANA_NETWORK", "SOLANA_RPC_URL", "SOLANA_PRIVKEY"} :
    mn_env[v] \in {EnvNone, ""}

\* the operator typed y or Y, with or without blanks around it
AnsweredYes ==
  /\ mn_input # NoResult
  /\ mn_input.kind = "str"
  /\ SelectSeq(mn_input.text, LAMBDA ch : ch # " ") \in {<<"y">>, <<"Y">>}

\* C23: main runs no suite when one of SOLANA_NETWORK, SOLANA_RPC_URL and
\* SOLANA_PRIVKEY is missing, and on mainnet none unless the operator
\* answered y at the prompt; otherwise it runs the exploit suite and then
\* the token suite, the token suite also after a failed exploit suite.
C23_SuitesGated ==
  /\ mn_suites # <<>> =>
       /\ ~EnvironmentMissing
       /\ mn_env["SOLANA_NETWORK"] = "mainnet" => AnsweredYes
  /\ Len(mn_suites) <= 2
  /\ \A i \in 1..Len(mn_suites) :
       mn_suites[i].suite = <<"run_exploit_tests", "run_token_tests">>[i]
  /\ mn_pc \in {"returned", "raised"} =>
       /\ mn_suites = <<>>
       /\ \/ EnvironmentMissing
          \/ mn_env["SOLANA_NETWORK"] = "mainnet" /\ ~AnsweredYes
  /\ mn_pc \in {"run_token_tests", "run_comprehensive_token_tests"} =>
       Len(mn_suites) = 1
  /\ mn_pc = "finished" => Len(mn_suites) = 2

C23_Witness ==
  /\ mn_pc = "finished"
  /\ mn_env["SOLANA_NETWORK"] = "mainnet"
  /\ mn_input = Text(<<"Y", " ">>)
  /\ Len(mn_suites) = 2
  /\ ~mn_suites[1].returned
  /\ mn_suites[2].suite = "run_token_tests"
  /\ mn_suites[2].returned

\* C29 as stated: run_token_tests returns True, and main counts the token
\* suite, only if run_comprehensive_token_tests returned no error dict;
\* success_count is between 0 and 2 and is the number of suites that
\* completed without error.
C29_TokenSuiteCounted ==
  /\ \A i \in 1..Len(mn_suites) :
       (mn_suites[i].suite = "run_token_tests" /\ mn_suites[i].returned)
         => "error" \notin DOMAIN mn_suites[i].results
  /\ success_count \in 0..2
  /\ mn_pc = "finished" =>
       success_count =
         Cardinality({i \in 1..Len(mn_suites) :
                        /\ mn_suites[i].returned
                        /\ "error" \notin DOMAIN mn_suites[i].results})

\* the last call was initialize_token_control on an account with at least
\* 82 bytes of data
InitializedFromMint ==
  /\ "fn" \in DOMAIN ctl_ret
  /\ ctl_ret.fn = "initialize_token_control"
  /\ ctl_ret.mint_info.kind = "account"
  /\ Len(ctl_ret.mint_info.data) >= 82

\* the value of the bytes from..to of data as a little-endian number
RECURSIVE LittleEndian(_, _, _)
LittleEndian(data, from, to) ==
  IF from > to THEN 0
  ELSE data[from] + 256 * LittleEndian(data, from + 1, to)

\* C24 as stated: for mint data of at least 82 bytes in the SPL Token
\* layout (authority tag in bytes 0..3, mint authority 4..35, supply 36..43,
\* decimals 44, initialized flag 45, freeze tag 46..49, freeze authority
\* 50..81) initialize_token_control returns True and stores a TokenInfo with
\* the encoded supply, decimals, is_initialized and authorities, an
\* authority exactly when its tag is Some; for a missing account or shorter
\* data it returns False and controlled_tokens stays as it was.
C24_MintLayoutDecoded ==
  /\ [](InitializedFromMint =>
          LET data == ctl_ret.mint_info.data
              m == ctl_ret.mint_address
          IN  /\ ctl_ret.value
              /\ m \in DOMAIN controlled_tokens
              /\ controlled_tokens[m].supply = LittleEndian(data, 37, 44)
              /\ controlled_tokens[m].decimals = data[45]
              /\ controlled_tokens[m].is_initialized = (data[46] = 1)
              /\ controlled_tokens[m].mint_authority =
                   IF LittleEndian(data, 1, 4) = 1
                   THEN [kind |-> "base58", bytes |-> SubSeq(data, 5, 36)]
                   ELSE NoneValue
              /\ controlled_tokens[m].freeze_authority =
                   IF LittleEndian(data, 47, 50) = 1
                   THEN [kind |-> "base58", bytes |-> SubSeq(data, 51, 82)]
                   ELSE NoneValue)
  /\ [][(/\ "fn" \in DOMAIN ctl_ret'
         /\ ctl_ret'.fn = "initialize_token_control"
         /\ \/ ctl_ret'.mint_info = NoneValue
            \/ /\ ctl_ret'.mint_info.kind = "account"
               /\ Len(ctl_ret'.mint_info.data) < 82)
          => /\ ~ctl_ret'.value
             /\ controlled_tokens' = controlled_tokens]_vars

\* C28 as stated: every ManipulationResult that manipulate_liquidity_display
\* returns is also appended to manipulation_history, so that get_statistics
\* reports total_manipulations equal to the number of calls made,
\* successful_manipulations <= total_manipulations, and success_rate 0 when
\* no call was made.
C28_EveryResultInHistory ==
  "fn" \in DOMAIN ctl_ret =>
    /\ ctl_ret.fn = "manipulate_liquidity_display" =>
         /\ manipulation_history # <<>>
         /\ Last(manipulation_history) = ctl_ret.value
    /\ ctl_ret.fn = "get_statistics" =>
         /\ ctl_ret.value.total_manipulations = ctl_calls
         /\ ctl_ret.value.successful_manipulations
              <= ctl_ret.value.total_manipulations
         /\ ctl_calls = 0 => ctl_ret.value.success_rate[1] = 0

\* create_test_spl_token of create_simple_spl_token_force has returned, the
\* environment was configured and the balance check passed
ForcedPastBalance ==
  /\ m_fn = "create_test_spl_token"
  /\ m_pc = "done"
  /\ m_args.target_address
  /\ m_args.privkey_hex = "keypair hex"
  /\ Len(m_rpc) >= 2

\* C25 as stated: the forced create_test_spl_token writes
\* simple_spl_token_info.json and returns True whenever the environment is
\* configured and the balance check passes, whether or not create-mint,
\* create-associated-account and mint-to succeeded, and the client is closed
\* on every path after it was opened.
C25_AlwaysWritesAndReturnsTrue ==
  /\ ForcedPastBalance =>
       /\ m_args.written
       /\ m_result = [kind |-> "bool", value |-> TRUE]
  /\ (m_fn = "create_test_spl_token" /\ m_pc = "done") =>
       m_client \in {"none", "closed"}

\* C25, amended: with the environment configured and the balance check
\* passed the three steps are all attempted in order, whichever of them
\* raised, and the function writes the file and returns True unless writing
\* the file itself raises, in which case it returns False; the client is
\* closed on every path after it was opened.
C25_ForcedStepsContinue ==
  /\ ForcedPastBalance =>
       /\ m_rpc = <<"get_balance", "create_mint",
                    "create_associated_token_account", "mint_to">>
       /\ IF m_exc = "io error"
          THEN ~m_args.written
                 /\ m_result = [kind |-> "bool", value |-> FALSE]
          ELSE m_args.written
                 /\ m_result = [kind |-> "bool", value |-> TRUE]
  /\ (m_fn = "create_test_spl_token" /\ m_pc = "done") =>
       m_client \in {"none", "closed"}

C25_Witness ==
  /\ ForcedPastBalance
  /\ m_args.caught = <<"create_mint", "create_associated_token_account",
                       "mint_to">>
  /\ m_args.written
  /\ m_result = [kind |-> "bool", value |-> TRUE]
  /\ m_client = "closed"

====
